---- MODULE Spec2Model ----
(***************************************************************************)
(* A model of the interaction/session core of the MelodyMind bot           *)
(* (src/main.py): the per-user download slot (active_downloads), the       *)
(* transient download directory, the in-memory store of encrypted Spotify *)
(* tokens (user_contexts[...]["spotify"]), the text-message handler with   *)
(* the chat history and mood it keeps, and the two conversations (Spotify  *)
(* linking, mood and genre).                                               *)
(*                                                                         *)
(* Handlers are coroutines: every `await` of the source is a step          *)
(* boundary, and the code between two awaits is one atomic step.  A call   *)
(* to the messaging transport either returns or raises (TimedOut,          *)
(* NetworkError, or another exception).  A POST to the OAuth token         *)
(* endpoint is answered by any of TokenResponses.  Handlers of different   *)
(* updates, and the coroutines one handler gathers, interleave at their    *)
(* awaits.                                                                 *)
(***************************************************************************)
EXTENDS Integers, FiniteSets, Sequences, TLC

VARIABLES now, active_downloads, files, dl, user_contexts, tk,
          conv, session, msg, cmd

\* The dialog states, the per-user session fields other than the tokens,
\* the text-message handlers and the command handlers in flight.
chatvars == <<conv, session, msg, cmd>>

vars == <<now, active_downloads, files, dl, user_contexts, tk, chatvars>>

\* ------------------------------------------------------------------ bounds

MaxDlTasks == 2
MaxTokTasks == 2
MaxTime == 3600
MaxCorrupt == 1
MaxMsgTasks == 1
MaxExchanges == 7
MaxCmdTasks == 1
MaxQueryLen == 41
MaxCharBytes == 2
MaxSeeds == 6
MaxDlgTime == 600

\* ------------------------------------------------------- program constants

\* "-60s buffer" subtracted from the provider lifetime
Margin == 60
\* token_data.get("expires_in", 3600)
DefaultExpiresIn == 3600
\* file_size_mb > 50.5, in bytes (50.5 * 1024 * 1024)
SizeLimitBytes == 52953088
\* 'max_filesize': 50 * 1024 * 1024, the 50 MiB of the size policy
CeilingBytes == 52428800
\* @retry(stop=stop_after_attempt(2), ...)
StopAfterAttempt == 2
\* error_msg[:100] and str(e)[:100]
ErrorTextLimit == 100
\* context["conversation_history"][-12:]
HistoryWindow == 12
\* len(text.split()) > 3
MoodMinTokens == 3
\* len(code_to_use) < 50
MinCodeLen == 50
\* conversation_timeout=timedelta(minutes=10).total_seconds()
LinkTimeout == 600
\* conversation_timeout=timedelta(minutes=5).total_seconds()
MoodTimeout == 300
\* ^[0-9A-Za-z_-]{11}$
VideoIdLen == 11
\* music_query[:30]
MusicQueryCut == 30
\* yt_query[:40]
YtQueryCut == 40
\* "Telegram: 1-64 bytes"
CallbackDataLimit == 64
\* seed_tracks[:max(0, 5-seed_count)], seed_count < 5
SeedCap == 5

\* user ids (update.effective_user.id): a user and one other user
Users == {1, 2}
NoUser == 0
DlTasks == 1..MaxDlTasks
TokTasks == 1..MaxTokTasks
MsgTasks == 1..MaxMsgTasks
CmdTasks == 1..MaxCmdTasks

\* The clock advances in steps of one default token lifetime.
Tick == DefaultExpiresIn

AdvanceTime ==
    /\ now + Tick <= MaxTime
    /\ now' = now + Tick
    /\ UNCHANGED <<active_downloads, files, dl, user_contexts, tk, chatvars>>

\* ================================================================ downloads

\* YouTube video identifiers; a valid URL is identified by the video it names.
Vids == {"vidAAAAAAAA"}
InvalidUrl == "not-a-url"
SearchTerms == {"some song"}

is_valid_youtube_url(url) == url \in Vids

\* A call of the messaging transport returns or raises.
\* telegram.error.TimedOut is a subclass of NetworkError, and download_music
\* handles the two alike.
TransportOutcomes == {"ok", "NetworkError", "Exception"}

NoPath == <<"none", 0>>

\* result["error"]: the reason and the number of characters of the
\* original error text it carries.
NoError == [reason |-> "none", carried |-> 0]

IdleDl ==
    [pc |-> "idle", user_id |-> NoUser, kind |-> "none", url |-> "none",
     audio_path |-> NoPath, status_msg |-> FALSE, exc |-> "none",
     outcome |-> "none", attempts |-> 0, size |-> 0, error |-> NoError]

\* Sizes (bytes) an extracted artifact may have.
Sizes == {1, CeilingBytes, SizeLimitBytes, SizeLimitBytes + 1}

\* The texts of the errors the library raises: the pattern found in the
\* text ("other" when none is) and the length of the text.
ErrorMarkers ==
    {"Unsupported URL", "Video unavailable", "is not available",
     "Private video", "Premiere", "other"}
ErrorLens == {40, ErrorTextLimit, ErrorTextLimit + 1}

\* What the library does in one call of the function body: it leaves a file
\* of some size under the output template, it finds no video information,
\* it leaves no file (a download it skipped; the size is then that of the
\* file the search of DOWNLOAD_DIR finds, if it finds one), or it raises.
Extractions ==
    [kind : {"file"}, size : Sizes, marker : {"none"}, len : {0}]
      \cup [kind : {"no_file"}, size : {z \in Sizes : z <= SizeLimitBytes},
            marker : {"none"}, len : {0}]
      \cup [kind : {"no_info"}, size : {0}, marker : {"none"}, len : {0}]
      \cup [kind : {"DownloadError", "Exception"}, size : {0},
            marker : ErrorMarkers, len : ErrorLens]

\* The extractions of the requests of several users: a file within the
\* limit, a file over it, and no file.
ExtractionsDL ==
    {x \in Extractions :
        \/ x.kind = "file" /\ x.size \in {1, SizeLimitBytes + 1}
        \/ x.kind = "no_file" /\ x.size = 1}

\* error_msg[:100]
Truncate_none(len) == len

Truncate(len) == IF len > ErrorTextLimit THEN ErrorTextLimit ELSE len

\* except yt_dlp.utils.DownloadError as de: the reason returned.
DownloadErrorReason(marker, len) ==
    CASE marker = "Unsupported URL" -> [reason |-> "Unsupported URL.", carried |-> 0]
      [] marker = "Video unavailable" -> [reason |-> "Video unavailable.", carried |-> 0]
      [] marker = "is not available" -> [reason |-> "Video not available.", carried |-> 0]
      [] marker = "Private video" -> [reason |-> "This is a private video.", carried |-> 0]
      [] marker = "Premiere" -> [reason |-> "Cannot download waiting Premieres.", carried |-> 0]
      [] OTHER -> [reason |-> "Download failed: ", carried |-> Truncate(len)]

\* except Exception as e: the reason returned.
ExceptionReason(len) ==
    [reason |-> "An unexpected error occurred: ", carried |-> Truncate(len)]

\* file_size_mb > 50.5
TooLarge(size) == size > SizeLimitBytes

\* Both except clauses of the function body return a dict, so no exception
\* of an extraction leaves the body.
Escapes(extraction) == FALSE

\* tenacity's retry: the body is called again when an exception left it and
\* fewer than stop_after_attempt calls have been made.
Retried(extraction, attempt) == Escapes(extraction) /\ attempt < StopAfterAttempt

\* user_id in active_downloads
AlreadyInProgress_off(user_id) == FALSE

AlreadyInProgress_global(user_id) == active_downloads # {}

AlreadyInProgress(user_id) == user_id \in active_downloads

\* active_downloads.add(user_id)
AddSlot_noop(user_id) == active_downloads

AddSlot(user_id) == active_downloads \cup {user_id}

\* finally: active_downloads.clear()
DiscardSlot_all(user_id) == {}

\* finally: active_downloads.discard(user_id)
DiscardSlot(user_id) == active_downloads \ {user_id}

\* The handler returns (or its exception leaves it) through the finally clause.
Returned(t, outcome) ==
    [IdleDl EXCEPT !.pc = "done", !.user_id = dl[t].user_id, !.outcome = outcome]

Finally(t, outcome) ==
    /\ dl' = [dl EXCEPT ![t] = Returned(t, outcome)]
    /\ active_downloads' = DiscardSlot(dl[t].user_id)

\* An exception raised in the try body of download_music reaches one of its
\* except clauses, each of which awaits status_msg.edit_text.
dm_Raise(t, exc) ==
    /\ dl' = [dl EXCEPT ![t].pc = "dm_except", ![t].exc = exc]
    /\ UNCHANGED active_downloads

\* An exception raised in the try body of auto_download_first_result: the
\* except clauses edit the status message only if there is one.
ad_Raise(t, exc) ==
    IF dl[t].status_msg
    THEN /\ dl' = [dl EXCEPT ![t].pc = "ad_except"]
         /\ UNCHANGED active_downloads
    ELSE Finally(t, "Failed")

Raise(t, exc) == IF dl[t].kind = "dm" THEN dm_Raise(t, exc) ELSE ad_Raise(t, exc)

\* An awaited transport call inside the try body: on success the handler
\* goes on to `next`, otherwise the exception is raised in the try body.
TryAwait(t, next) ==
    \E r \in TransportOutcomes :
        IF r = "ok"
        THEN /\ dl' = [dl EXCEPT ![t].pc = next]
             /\ UNCHANGED active_downloads
        ELSE Raise(t, r)

\* download_music, up to its first await: URL check, guard, add.
download_music(t, user_id, url) ==
    /\ dl[t].pc = "idle"
    /\ IF ~is_valid_youtube_url(url)
       THEN /\ dl' = [dl EXCEPT ![t] = [IdleDl EXCEPT !.pc = "dm_badurl",
                          !.user_id = user_id, !.kind = "dm", !.url = url]]
            /\ UNCHANGED active_downloads
       ELSE IF AlreadyInProgress(user_id)
       THEN /\ dl' = [dl EXCEPT ![t] = [IdleDl EXCEPT !.pc = "dm_reject",
                          !.user_id = user_id, !.kind = "dm", !.url = url]]
            /\ UNCHANGED active_downloads
       ELSE /\ dl' = [dl EXCEPT ![t] = [IdleDl EXCEPT !.pc = "dm_status",
                          !.user_id = user_id, !.kind = "dm", !.url = url]]
            /\ active_downloads' = AddSlot(user_id)
    /\ UNCHANGED <<now, files, user_contexts, tk, chatvars>>

\* await reply_text("Please provide a valid YouTube URL"); return (whether
\* or not the reply could be sent)
dm_badurl(t) ==
    /\ dl[t].pc = "dm_badurl"
    /\ dl' = [dl EXCEPT ![t] = Returned(t, "Invalid")]
    /\ UNCHANGED <<now, active_downloads, files, user_contexts, tk, chatvars>>

\* await reply_text("One download at a time, please!"); return
dm_reject(t) ==
    /\ dl[t].pc = "dm_reject"
    /\ dl' = [dl EXCEPT ![t] = Returned(t, "AlreadyInProgress")]
    /\ UNCHANGED <<now, active_downloads, files, user_contexts, tk, chatvars>>

\* status_msg = await reply_text("Starting download..."), before the try.
dm_status(t) ==
    /\ dl[t].pc = "dm_status"
    /\ \E r \in TransportOutcomes :
        IF r = "ok"
        THEN dl' = [dl EXCEPT ![t].pc = "dm_edit_fetching", ![t].status_msg = TRUE]
        ELSE dl' = [dl EXCEPT ![t] = Returned(t, "Fault")]
    /\ UNCHANGED <<now, active_downloads, files, user_contexts, tk, chatvars>>

\* await status_msg.edit_text("Fetching video info...")
dm_edit_fetching(t) ==
    /\ dl[t].pc = "dm_edit_fetching"
    /\ TryAwait(t, "extract")
    /\ UNCHANGED <<now, files, user_contexts, tk, chatvars>>

\* auto_download_first_result, up to its first await: guard, add.
auto_download_first_result(t, user_id, query) ==
    /\ dl[t].pc = "idle"
    /\ IF AlreadyInProgress(user_id)
       THEN /\ dl' = [dl EXCEPT ![t] = [IdleDl EXCEPT !.pc = "ad_reject",
                          !.user_id = user_id, !.kind = "ad", !.url = query]]
            /\ UNCHANGED active_downloads
       ELSE /\ dl' = [dl EXCEPT ![t] = [IdleDl EXCEPT !.pc = "ad_status",
                          !.user_id = user_id, !.kind = "ad", !.url = query]]
            /\ active_downloads' = AddSlot(user_id)
    /\ UNCHANGED <<now, files, user_contexts, tk, chatvars>>

\* await edit_message_text / send_message("Hold on! ..."); return
ad_reject(t) ==
    /\ dl[t].pc = "ad_reject"
    /\ dl' = [dl EXCEPT ![t] = Returned(t, "AlreadyInProgress")]
    /\ UNCHANGED <<now, active_downloads, files, user_contexts, tk, chatvars>>

\* status_msg = await edit_message_text / send_message("Okay, searching ..."),
\* inside the try; then the branch on is_valid_youtube_url(query).
ad_status(t) ==
    /\ dl[t].pc = "ad_status"
    /\ \E r \in TransportOutcomes :
        IF r = "ok"
        THEN /\ dl' = [dl EXCEPT ![t].status_msg = TRUE,
                        ![t].pc = IF is_valid_youtube_url(dl[t].url)
                                  THEN "ad_prefetch" ELSE "ad_search"]
             /\ UNCHANGED active_downloads
        ELSE ad_Raise(t, r)
    /\ UNCHANGED <<now, files, user_contexts, tk, chatvars>>

\* await asyncio.to_thread(extract_info, query, download=False): any
\* exception is swallowed; then await status_msg.edit_text("Found ...").
ad_prefetch(t) ==
    /\ dl[t].pc = "ad_prefetch"
    /\ dl' = [dl EXCEPT ![t].pc = "ad_edit_found"]
    /\ UNCHANGED <<now, active_downloads, files, user_contexts, tk, chatvars>>

\* results = await asyncio.to_thread(search_youtube_sync, query, 1)
ad_search(t) ==
    /\ dl[t].pc = "ad_search"
    /\ \E found \in Vids \cup {InvalidUrl} :
        dl' = [dl EXCEPT ![t].url = found,
                 ![t].pc = IF is_valid_youtube_url(found)
                           THEN "ad_edit_found" ELSE "ad_edit_notfound"]
    /\ UNCHANGED <<now, active_downloads, files, user_contexts, tk, chatvars>>

\* await status_msg.edit_text("Couldn't find a downloadable track"); return
ad_edit_notfound(t) ==
    /\ dl[t].pc = "ad_edit_notfound"
    /\ \E r \in TransportOutcomes :
        IF r = "ok" THEN Finally(t, "Failed") ELSE Raise(t, r)
    /\ UNCHANGED <<now, files, user_contexts, tk, chatvars>>

\* await status_msg.edit_text("Found ... Preparing download...")
ad_edit_found(t) ==
    /\ dl[t].pc = "ad_edit_found"
    /\ TryAwait(t, "extract")
    /\ UNCHANGED <<now, files, user_contexts, tk, chatvars>>

\* unique_filename_base = f"{video_id}_{datetime.now():%Y%m%d%H%M%S}"
unique_filename_base(url, time) == <<url, time>>

\* The function returns {"success": True, "audio_path": ...}.
Extracted(t, path, size, attempt) ==
    /\ files' = files \cup {path}
    /\ dl' = [dl EXCEPT ![t].pc = "edit_downloaded", ![t].audio_path = path,
                        ![t].size = size, ![t].attempts = attempt]

\* The function returns {"success": False, "error": ...}.
Failed(t, error, attempt) ==
    dl' = [dl EXCEPT ![t].pc = "edit_failed", ![t].error = error,
                     ![t].attempts = attempt]

\* result = await asyncio.to_thread(download_youtube_audio_sync, url), one
\* call of the function body under the retry decorator.  The file the
\* library wrote is in DOWNLOAD_DIR under the unique base; when the library
\* names no existing file, the first file of DOWNLOAD_DIR whose name starts
\* with the base is taken.  A file over the limit is removed and reported
\* as a failure; every exception is returned as a failure.
download_youtube_audio_sync(t, extraction) ==
    /\ dl[t].pc = "extract"
    /\ LET path == unique_filename_base(dl[t].url, now)
           attempt == dl[t].attempts + 1
       IN IF Retried(extraction, attempt)
          THEN /\ dl' = [dl EXCEPT ![t].attempts = attempt]
               /\ files' = files
          ELSE CASE extraction.kind = "no_info" ->
                    /\ Failed(t, [reason |-> "Could not extract video information",
                                  carried |-> 0], attempt)
                    /\ files' = files
                 [] extraction.kind = "file" ->
                    IF TooLarge(extraction.size)
                    THEN /\ Failed(t, [reason |-> "File exceeds 50 MB Telegram limit after download",
                                       carried |-> 0], attempt)
                         /\ files' = files \ {path}
                    ELSE Extracted(t, path, extraction.size, attempt)
                 [] extraction.kind = "no_file" ->
                    IF path \in files
                    THEN Extracted(t, path, extraction.size, attempt)
                    ELSE /\ Failed(t, [reason |-> "Downloaded file not found after download process.",
                                       carried |-> 0], attempt)
                         /\ files' = files
                 [] extraction.kind = "DownloadError" ->
                    /\ Failed(t, DownloadErrorReason(extraction.marker, extraction.len), attempt)
                    /\ files' = files
                 [] extraction.kind = "Exception" ->
                    /\ Failed(t, ExceptionReason(extraction.len), attempt)
                    /\ files' = files
    /\ UNCHANGED <<now, active_downloads, user_contexts, tk, chatvars>>

\* await status_msg.edit_text("Download failed: ..."); return
edit_failed(t) ==
    /\ dl[t].pc = "edit_failed"
    /\ \E r \in TransportOutcomes :
        IF r = "ok" THEN Finally(t, "Failed") ELSE Raise(t, r)
    /\ UNCHANGED <<now, files, user_contexts, tk, chatvars>>

\* await status_msg.edit_text("Downloaded: ... Sending ..."), then
\* send_audio_via_bot opens the file (FileNotFoundError if it is gone).
edit_downloaded(t) ==
    /\ dl[t].pc = "edit_downloaded"
    /\ TryAwait(t, IF dl[t].audio_path \in files THEN "send_audio" ELSE "send_audio_err")
    /\ UNCHANGED <<now, files, user_contexts, tk, chatvars>>

\* if os.path.exists(audio_path): os.remove(audio_path)
RemoveArtifact(t) == files \ {dl[t].audio_path}

\* await bot.send_audio(...): an exception is caught inside
\* send_audio_via_bot, which then sends an apology; on return the handler
\* removes the file and goes on to delete the status message.
send_audio_via_bot(t) ==
    /\ dl[t].pc = "send_audio"
    /\ \E r \in TransportOutcomes :
        IF r = "ok"
        THEN /\ dl' = [dl EXCEPT ![t].pc = "delete_status"]
             /\ files' = RemoveArtifact(t)
        ELSE /\ dl' = [dl EXCEPT ![t].pc = "send_audio_err"]
             /\ files' = files
    /\ UNCHANGED <<now, active_downloads, user_contexts, tk, chatvars>>

\* await bot.send_message("Sorry, ...") in an except clause of
\* send_audio_via_bot: its own exception reaches the handler's try body.
send_audio_err(t) ==
    /\ dl[t].pc = "send_audio_err"
    /\ \E r \in TransportOutcomes :
        IF r = "ok"
        THEN /\ dl' = [dl EXCEPT ![t].pc = "delete_status"]
             /\ files' = RemoveArtifact(t)
             /\ UNCHANGED active_downloads
        ELSE /\ Raise(t, r)
             /\ files' = files
    /\ UNCHANGED <<now, user_contexts, tk, chatvars>>

\* try: await status_msg.delete() except Exception: pass; then finally.
delete_status(t) ==
    /\ dl[t].pc = "delete_status"
    /\ Finally(t, "Done")
    /\ UNCHANGED <<now, files, user_contexts, tk, chatvars>>

\* download_music's except clauses: TimedOut and NetworkError await
\* status_msg.edit_text unprotected, the last clause protects it.
dm_except(t) ==
    /\ dl[t].pc = "dm_except"
    /\ \E r \in TransportOutcomes :
        Finally(t, IF r # "ok" /\ dl[t].exc = "NetworkError"
                   THEN "Fault" ELSE "Failed")
    /\ UNCHANGED <<now, files, user_contexts, tk, chatvars>>

\* auto_download_first_result's except clauses: the edit is protected.
ad_except(t) ==
    /\ dl[t].pc = "ad_except"
    /\ Finally(t, "Failed")
    /\ UNCHANGED <<now, files, user_contexts, tk, chatvars>>

\* error_handler, called by the dispatcher with the exception that left a
\* handler: it logs and awaits a reply to the user of the update, whose
\* failure it swallows.
error_handler(t) ==
    /\ dl[t].pc = "done" /\ dl[t].outcome = "Fault"
    /\ dl' = [dl EXCEPT ![t].outcome = "Reported"]
    /\ UNCHANGED <<now, active_downloads, files, user_contexts, tk, chatvars>>

\* The handler has returned; its frame is gone.
handler_returned(t) ==
    /\ dl[t].pc = "done"
    /\ dl' = [dl EXCEPT ![t] = IdleDl]
    /\ UNCHANGED <<now, active_downloads, files, user_contexts, tk, chatvars>>

\* =================================================================== tokens

\* cipher = Fernet(cipher_key_bytes): one key for the life of the process.
CipherKey == "process-key"

\* A Fernet token: the plaintext it carries and the key that authenticates
\* it.  NoCipher stands for a missing dictionary entry.
NoCipher == [pt |-> "none", key |-> "none"]

\* cipher.encrypt(plaintext)
encrypt(pt) == [pt |-> pt, key |-> CipherKey]

\* A decrypt that authenticates nothing.
Decryptable_any(ciphertext) == TRUE

\* cipher.decrypt(ciphertext) returns ciphertext.pt when Decryptable, and
\* raises otherwise.
Decryptable(ciphertext) == ciphertext.key = CipherKey

\* user_contexts[user_id]["spotify"]; expires_at 0 stands for a missing entry
\* (both are falsy in `expires_at and now > expires_at`).
NoSpotify == [access_token |-> NoCipher, refresh_token |-> NoCipher, expires_at |-> 0]

\* user_contexts[user_id]["spotify"] = {}
Cleared_partial(sp) == [sp EXCEPT !.refresh_token = NoCipher]

Cleared(sp) == NoSpotify

\* Tokens the provider issues.
AccessTokens == {"a1", "a2"}
RefreshTokens == {"r1", "r2"}
\* "expires_in" of a token response; 0 stands for a response without it.
ExpiresIns == {0, DefaultExpiresIn}

\* (now + timedelta(seconds=token_data.get("expires_in", 3600) - 60)).timestamp()
expires_at_of(expires_in) ==
    now + (IF expires_in = 0 THEN DefaultExpiresIn ELSE expires_in) - Margin

NoResponse ==
    [status |-> 0, error |-> "none", access_token |-> "none",
     refresh_token |-> "none", expires_in |-> 0]

\* What the token endpoint answers: a 200 with a JSON body in which either
\* token may be missing (fields that are present are strings and numbers), an OAuth error (HTTP 400 with an error code), a
\* server error, or no response at all (connection error, timeout).
TokenResponses ==
    {[NoResponse EXCEPT !.status = 200, !.access_token = a, !.refresh_token = r,
                        !.expires_in = e] :
        a \in AccessTokens \cup {"none"}, r \in RefreshTokens \cup {"none"},
        e \in ExpiresIns}
    \cup {[NoResponse EXCEPT !.status = 400, !.error = err] :
            err \in {"invalid_grant", "invalid_request"}}
    \cup {[NoResponse EXCEPT !.status = 503, !.error = "server_error"]}
    \cup {NoResponse}

IdleTk ==
    [pc |-> "idle", user_id |-> NoUser, refresh_token_str |-> "none",
     repair |-> FALSE, result |-> "none", exc |-> "none"]

\* The call has returned `result` ("none" for None) to its caller; exc is
\* the OAuth error of the exchange that refresh_spotify_token logged, if any.
TkReturned(user_id, result) ==
    [IdleTk EXCEPT !.pc = "done", !.user_id = user_id, !.result = result]

\* datetime.now(pytz.UTC).timestamp() > expires_at
Expired_never(sp) == FALSE

Expired(sp) == sp.expires_at # 0 /\ now > sp.expires_at

\* get_user_spotify_access_token(user_id), run on the stored entry sp up to
\* its first await: the stored token is returned if it is present, not
\* expired and decrypts; otherwise refresh_spotify_token runs up to its POST.
Enter(c, user_id, sp) ==
    LET repair == sp.access_token # NoCipher /\ ~Expired(sp)
                    /\ ~Decryptable(sp.access_token)
    IN  IF sp.access_token # NoCipher /\ ~Expired(sp) /\ Decryptable(sp.access_token)
        THEN /\ tk' = [tk EXCEPT ![c] = TkReturned(user_id, sp.access_token.pt)]
             /\ user_contexts' = [user_contexts EXCEPT ![user_id] = sp]
        ELSE IF sp.refresh_token = NoCipher
        THEN /\ tk' = [tk EXCEPT ![c] = TkReturned(user_id, "none")]
             /\ user_contexts' = [user_contexts EXCEPT ![user_id] = sp]
        ELSE IF ~Decryptable(sp.refresh_token)
        THEN /\ tk' = [tk EXCEPT ![c] = TkReturned(user_id, "none")]
             /\ user_contexts' = [user_contexts EXCEPT ![user_id] = Cleared(sp)]
        ELSE /\ tk' = [tk EXCEPT ![c] = [IdleTk EXCEPT !.pc = "refresh_post",
                        !.user_id = user_id, !.repair = repair,
                        !.refresh_token_str = sp.refresh_token.pt]]
             /\ user_contexts' = [user_contexts EXCEPT ![user_id] = sp]

\* spotify_code_handler with a plausible code, up to the await of
\* get_user_spotify_token.
spotify_code_handler(c, user_id) ==
    /\ tk[c].pc = "idle"
    /\ tk' = [tk EXCEPT ![c] = [IdleTk EXCEPT !.pc = "link_post", !.user_id = user_id]]
    /\ UNCHANGED <<now, active_downloads, files, dl, user_contexts, chatvars>>

\* The refresh token not looked at.
LinkRefused_access(resp) ==
    resp.status # 200 \/ resp.access_token = "none"

\* not token_data or not access_token or not refresh_token
LinkRefused(resp) ==
    resp.status # 200 \/ resp.access_token = "none" \/ resp.refresh_token = "none"

\* The three assignments that store a linked pair.
LinkedPair(resp) ==
    [access_token |-> encrypt(resp.access_token),
     refresh_token |-> encrypt(resp.refresh_token),
     expires_at |-> expires_at_of(resp.expires_in)]

\* token_data = await get_user_spotify_token(user_id, code): on failure the
\* handler reports it; on success it stores the encrypted pair and goes on
\* to get_user_spotify_data, which asks for the access token.
get_user_spotify_token(c, resp) ==
    /\ tk[c].pc = "link_post"
    /\ IF LinkRefused(resp)
       THEN /\ tk' = [tk EXCEPT ![c] = TkReturned(tk[c].user_id, "none")]
            /\ UNCHANGED user_contexts
       ELSE Enter(c, tk[c].user_id, LinkedPair(resp))
    /\ UNCHANGED <<now, active_downloads, files, dl, chatvars>>

\* smart_recommend_music._fetch_spotify_data: if an access token is stored,
\* two get_user_spotify_data coroutines are gathered.
fetch_spotify_data(user_id, c1, c2) ==
    /\ c1 # c2
    /\ tk[c1].pc = "idle" /\ tk[c2].pc = "idle"
    /\ user_contexts[user_id].access_token # NoCipher
    /\ tk' = [tk EXCEPT ![c1] = [IdleTk EXCEPT !.pc = "call", !.user_id = user_id],
                        ![c2] = [IdleTk EXCEPT !.pc = "call", !.user_id = user_id]]
    /\ UNCHANGED <<now, active_downloads, files, dl, user_contexts, chatvars>>

\* A gathered get_user_spotify_data starts running.
get_user_spotify_access_token(c) ==
    /\ tk[c].pc = "call"
    /\ Enter(c, tk[c].user_id, user_contexts[tk[c].user_id])
    /\ UNCHANGED <<now, active_downloads, files, dl, chatvars>>

\* hasattr(e, 'status') and e.status == 400
IsRevoked_401(resp) == resp.status = 401

IsRevoked(resp) == resp.status = 400

\* The three assignments that store a refreshed pair; the provider may
\* issue no new refresh token, and the old one is then stored again.
RefreshedPair(resp, refresh_token_str) ==
    [access_token |-> encrypt(resp.access_token),
     refresh_token |-> encrypt(IF resp.refresh_token = "none"
                               THEN refresh_token_str ELSE resp.refresh_token),
     expires_at |-> expires_at_of(resp.expires_in)]

\* refresh_spotify_token from the answer resp of its POST to its return.
refresh_spotify_token(c, resp) ==
    /\ tk[c].pc = "refresh_post"
    /\ LET u == tk[c].user_id
       IN IF resp.status = 200 /\ resp.access_token # "none"
          THEN /\ user_contexts' = [user_contexts EXCEPT ![u] =
                      RefreshedPair(resp, tk[c].refresh_token_str)]
               /\ tk' = [tk EXCEPT ![c] = TkReturned(u, resp.access_token)]
          ELSE /\ user_contexts' = [user_contexts EXCEPT ![u] =
                      IF IsRevoked(resp) THEN Cleared(@) ELSE @]
               /\ tk' = [tk EXCEPT ![c] =
                      [TkReturned(u, "none") EXCEPT !.exc = resp.error]]
    /\ UNCHANGED <<now, active_downloads, files, dl, chatvars>>

\* The caller has the answer; the coroutine is gone.
call_returned(c) ==
    /\ tk[c].pc = "done"
    /\ tk' = [tk EXCEPT ![c] = IdleTk]
    /\ UNCHANGED <<now, active_downloads, files, dl, user_contexts, chatvars>>

\* Bytes that do not authenticate under the process key.
Corrupt == [pt |-> "garbage", key |-> "corrupt"]

CorruptStored ==
    {<<u, f>> \in Users \X {"access_token", "refresh_token"} :
        user_contexts[u][f] = Corrupt}

\* A stored ciphertext stops authenticating (corrupt bytes): the case the
\* `except` clauses around cipher.decrypt are written for.
InvalidCiphertext(user_id, field) ==
    /\ Cardinality(CorruptStored) < MaxCorrupt
    /\ user_contexts[user_id][field] # NoCipher
    /\ Decryptable(user_contexts[user_id][field])
    /\ user_contexts' = [user_contexts EXCEPT ![user_id][field] = Corrupt]
    /\ UNCHANGED <<now, active_downloads, files, dl, tk, chatvars>>

\* ================================================================= messages

\* user_contexts[user_id] without the "spotify" entry; mood "none" is None.
\* A history entry is <<role, n>>: the user's text of the n-th exchange
\* appended for that user, or the reply to it; exchanges counts them.
NoSession ==
    [mood |-> "none", preferences |-> <<>>, conversation_history |-> <<>>,
     exchanges |-> 0]

\* Inbound texts, as their whitespace-delimited tokens.  A token that names
\* a video stands for a word containing a YouTube URL.
Texts ==
    {<<"vidAAAAAAAA">>, <<"get", "vidAAAAAAAA", "for", "me">>,
     <<"lyrics", "for", "hello">>, <<"lyrics", "for">>,
     <<"play", "hello">>, <<"i", "feel", "so", "happy">>}

\* The pattern matched against the whole text only.
TextHasUrl_whole(text) == Len(text) = 1 /\ is_valid_youtube_url(text[1])

\* is_valid_youtube_url(text): re.search finds the pattern anywhere in the text.
TextHasUrl(text) == \E i \in 1..Len(text) : is_valid_youtube_url(text[i])

\* lyrics_keywords_precise (two of the six)
LyricsKeywords == {<<"lyrics", "for">>, <<"lyrics", "to">>}

StartsWith(text, keyword) ==
    Len(text) >= Len(keyword) /\ SubSeq(text, 1, Len(keyword)) = keyword

\* lyrics_query_candidate: what follows the keyword the text starts with, if
\* anything follows; <<>> stands for None.
lyrics_query_candidate(text) ==
    IF \E k \in LyricsKeywords : StartsWith(text, k) /\ Len(text) > Len(k)
    THEN LET k == CHOOSE kw \in LyricsKeywords : StartsWith(text, kw) /\ Len(text) > Len(kw)
         IN  SubSeq(text, Len(k) + 1, Len(text))
    ELSE <<>>

\* What the classification call comes to: no client configured, an exception
\* of the API call, a body that is not JSON, JSON that is not an object, or
\* an object with a flag and a song_query ("none" for null or a non-string).
LlmOutcomes ==
    {[kind |-> k, flag |-> FALSE, query |-> "none"] :
        k \in {"no_client", "error", "invalid_json", "non_dict"}}
    \cup {[kind |-> "dict", flag |-> f, query |-> q] :
            f \in BOOLEAN, q \in {"none", "", "hello"}}

\* A blank song_query kept as it came.
is_music_request_blank(raw) ==
    IF raw.kind = "dict"
    THEN [is_music_request |-> raw.flag, song_query |-> raw.query]
    ELSE [is_music_request |-> FALSE, song_query |-> "none"]

\* The flag of the response taken as set whenever there is a response.
is_music_request_unflagged(raw) ==
    IF raw.kind = "dict"
    THEN [is_music_request |-> TRUE,
          song_query |-> IF raw.query = "" THEN "none" ELSE raw.query]
    ELSE [is_music_request |-> FALSE, song_query |-> "none"]

\* is_music_request(user_id, message), from the outcome of its API call.
is_music_request(raw) ==
    IF raw.kind = "dict"
    THEN [is_music_request |-> raw.flag,
          song_query |-> IF raw.query = "" THEN "none" ELSE raw.query]
    ELSE [is_music_request |-> FALSE, song_query |-> "none"]

\* Answers of the mood completion the text handler is run with: two words
\* of valid_moods.
MoodEstimates == {"happy", "neutral"}

\* Answers of the mood completion, lowered and stripped: a word of
\* mood_map, another one of it, a valid mood, and a word that is neither.
RawMoods == {"joyful", "stressed", "neutral", "gloomy"}

\* mood_map.get(mood_raw, mood_raw)
mood_map(mood_raw) ==
    CASE mood_raw = "positive" -> "happy"
      [] mood_raw = "negative" -> "sad"
      [] mood_raw = "joyful" -> "happy"
      [] mood_raw = "depressed" -> "sad"
      [] mood_raw = "chill" -> "relaxed"
      [] mood_raw = "stressed" -> "anxious"
      [] mood_raw = "hyper" -> "energetic"
      [] mood_raw = "peaceful" -> "calm"
      [] OTHER -> mood_raw

valid_moods ==
    {"happy", "sad", "anxious", "excited", "calm", "angry", "neutral",
     "energetic", "relaxed", "focused", "nostalgic"}

\* The answer returned without the test against valid_moods.
detect_mood_from_text_unchecked(mood_raw, stored) ==
    IF mood_raw = "error" THEN stored ELSE mood_map(mood_raw)

\* detect_mood_from_text: the normalised answer if it is a valid mood and
\* "neutral" if not; the stored mood when the call fails or there is no
\* client.
detect_mood_from_text(mood_raw, stored) ==
    IF mood_raw = "error" THEN stored
    ELSE IF mood_map(mood_raw) \in valid_moods THEN mood_map(mood_raw)
    ELSE "neutral"

\* The chat exchanges answered so far, of the users in U.
RECURSIVE Exchanges(_)
Exchanges(U) ==
    IF U = {} THEN 0
    ELSE LET u == CHOOSE x \in U : TRUE
         IN  session[u].exchanges + Exchanges(U \ {u})

IdleMsg ==
    [pc |-> "idle", user_id |-> NoUser, text |-> <<>>,
     route |-> "none", query |-> <<>>,
     mood_pc |-> "none", mood_user |-> NoUser, current_mood |-> "none"]

\* The handler has returned; a mood task it created may still be running.
MsgReturned(m, route, query) ==
    [msg[m] EXCEPT !.pc = "done", !.user_id = NoUser, !.text = <<>>,
                   !.route = route, !.query = query]

\* context["conversation_history"][-12:]
LastEntries(h) ==
    IF Len(h) <= HistoryWindow THEN h
    ELSE SubSeq(h, Len(h) - HistoryWindow + 1, Len(h))

\* The mood block placed before the direct-link branch.
CreatesMoodTask_always(text) == Len(text) > MoodMinTokens

\* The mood block comes after the return of the direct-link branch: a text
\* with a URL creates no mood task.

CreatesMoodTask(text) == ~TextHasUrl(text) /\ Len(text) > MoodMinTokens

\* enhanced_handle_message up to its first await.  The text handler is the
\* last one registered, so it gets a text only when the linking dialog is not
\* waiting for a code.  A text with a URL goes to download_music and the
\* handler returns after it; any other text of more than three tokens
\* creates the _update_mood task, and the handler awaits is_music_request.
enhanced_handle_message(m, user_id, text) ==
    /\ msg[m].pc = "idle" /\ msg[m].mood_pc = "none"
    /\ conv[user_id].link.state # "SPOTIFY_CODE"
    /\ Exchanges(Users) < MaxExchanges
    /\ LET mood_task == IF CreatesMoodTask(text)
                        THEN [IdleMsg EXCEPT !.mood_pc = "running", !.mood_user = user_id,
                                             !.current_mood = session[user_id].mood]
                        ELSE IdleMsg
       IN  IF TextHasUrl(text)
           THEN msg' = [msg EXCEPT ![m] =
                    [mood_task EXCEPT !.pc = "done", !.route = "DirectMediaLink"]]
           ELSE msg' = [msg EXCEPT ![m] =
                    [mood_task EXCEPT !.pc = "is_music_request", !.user_id = user_id,
                                      !.text = text]]
    /\ UNCHANGED <<now, active_downloads, files, dl, user_contexts, tk, conv, session, cmd>>

\* ai_music_eval = await is_music_request(user_id, text) returns: a flagged
\* request with a query is answered as a music request; otherwise a text
\* with a lyrics candidate goes to get_lyrics_command; otherwise the chat
\* fallback starts (sleep, "thinking" message).
is_music_request_returns(m, raw) ==
    /\ msg[m].pc = "is_music_request"
    /\ LET ai_music_eval == is_music_request(raw)
       IN  IF ai_music_eval.is_music_request /\ ai_music_eval.song_query # "none"
           THEN msg' = [msg EXCEPT ![m] =
                    MsgReturned(m, "MusicRequest", <<ai_music_eval.song_query>>)]
           ELSE IF lyrics_query_candidate(msg[m].text) # <<>>
           THEN msg' = [msg EXCEPT ![m] =
                    MsgReturned(m, "LyricsRequest", lyrics_query_candidate(msg[m].text))]
           ELSE msg' = [msg EXCEPT ![m].pc = "thinking", ![m].text = <<>>]
    /\ UNCHANGED <<now, active_downloads, files, dl, user_contexts, tk, conv, session, cmd>>

\* generate_chat_response up to its await: the stored history is cut to its
\* last 12 entries.  (The outcome without a client is drawn in
\* generate_chat_response_returns.)
generate_chat_response(m) ==
    /\ msg[m].pc = "thinking"
    /\ session' = [session EXCEPT ![msg[m].user_id].conversation_history = LastEntries(@)]
    /\ msg' = [msg EXCEPT ![m].pc = "generate_chat_response"]
    /\ UNCHANGED <<now, active_downloads, files, dl, user_contexts, tk, conv, cmd>>

\* The user's message appended before the call, so that it stays in the
\* history when the call raises.
generate_chat_response_returns_eager(m, ok) ==
    /\ msg[m].pc = "generate_chat_response"
    /\ LET u == msg[m].user_id
           n == session[u].exchanges + 1
       IN  session' = [session EXCEPT ![u] =
                [@ EXCEPT !.exchanges = n,
                    !.conversation_history =
                        IF ok THEN @ \o <<(<<"user", n>>), (<<"assistant", n>>)>>
                        ELSE @ \o <<(<<"user", n>>)>>]]
    /\ msg' = [msg EXCEPT ![m] = MsgReturned(m, "GenericChat", <<>>)]
    /\ UNCHANGED <<now, active_downloads, files, dl, user_contexts, tk, conv, cmd>>

\* The completion call returns a reply, and the exchange is appended to the
\* history, or it raises, and nothing is appended.
generate_chat_response_returns(m, ok) ==
    /\ msg[m].pc = "generate_chat_response"
    /\ LET u == msg[m].user_id
           n == session[u].exchanges + 1
       IN  session' = [session EXCEPT ![u] =
                IF ok
                THEN [@ EXCEPT !.exchanges = n,
                        !.conversation_history = @ \o <<(<<"user", n>>), (<<"assistant", n>>)>>]
                ELSE @]
    /\ msg' = [msg EXCEPT ![m] = MsgReturned(m, "GenericChat", <<>>)]
    /\ UNCHANGED <<now, active_downloads, files, dl, user_contexts, tk, conv, cmd>>

\* _update_mood writing whatever detect_mood_from_text returned.
update_mood_always(m, estimate) ==
    /\ msg[m].mood_pc = "running"
    /\ LET u == msg[m].mood_user
           detected_mood == detect_mood_from_text(estimate, session[u].mood)
       IN  session' = [session EXCEPT ![u].mood = detected_mood]
    /\ msg' = [msg EXCEPT ![m].mood_pc = "none", ![m].mood_user = NoUser,
                          ![m].current_mood = "none"]
    /\ UNCHANGED <<now, active_downloads, files, dl, user_contexts, tk, conv, cmd>>

\* _update_mood: detect_mood_from_text returns an estimate, or, when it
\* fails, the mood stored at that moment; the mood is written if the
\* estimate is set, not neutral and not the mood the handler read.
update_mood(m, estimate) ==
    /\ msg[m].mood_pc = "running"
    /\ LET u == msg[m].mood_user
           detected_mood == detect_mood_from_text(estimate, session[u].mood)
       IN  session' = [session EXCEPT ![u].mood =
                IF detected_mood # "none" /\ detected_mood # "neutral"
                   /\ detected_mood # msg[m].current_mood
                THEN detected_mood ELSE @]
    /\ msg' = [msg EXCEPT ![m].mood_pc = "none", ![m].mood_user = NoUser,
                          ![m].current_mood = "none"]
    /\ UNCHANGED <<now, active_downloads, files, dl, user_contexts, tk, conv, cmd>>

\* The handler's frame is released.
message_handled(m) ==
    /\ msg[m].pc = "done"
    /\ msg' = [msg EXCEPT ![m] = [IdleMsg EXCEPT !.mood_pc = msg[m].mood_pc,
                    !.mood_user = msg[m].mood_user, !.current_mood = msg[m].current_mood]]
    /\ UNCHANGED <<now, active_downloads, files, dl, user_contexts, tk, conv, session, cmd>>

\* ================================================================== dialogs

\* A conversation of a ConversationHandler for one user: its state ("none"
\* when there is none) and the time its timeout job is due (0 without job).
NoDialog == [state |-> "none", deadline |-> 0]

\* link, mood: the two conversations; reply: what the bot answered to the
\* user's last update; task, via, outcome: the code exchange the user's
\* update is waiting for, the handler it came through, and what it gave.
NoConv ==
    [link |-> NoDialog, mood |-> NoDialog, reply |-> "none",
     task |-> 0, via |-> "none", outcome |-> "none"]

\* The user's previous update is still being handled.  The handlers of the
\* conversations are blocking: a conversation takes its next update after
\* the handler of the previous one has returned.
Busy(u) == conv[u].task # 0

\* Lengths of the codes users send; 0 is a command without argument.
CodeLens == {45, MinCodeLen - 1, MinCodeLen}

\* The mood keyboard of set_mood.
MoodKeyboard ==
    {"happy", "sad", "energetic", "relaxed", "focused", "nostalgic", "neutral"}

\* Buttons of the mood keyboard (one of seven) and of the genre keyboard
\* (a genre, "any" and "skip").
MoodButtons == {"happy"}
PrefButtons == {"rock", "any", "skip"}

\* The job of conversation_timeout, scheduled when a handler leaves the
\* conversation in a state.
Waiting(state, timeout) == [state |-> state, deadline |-> now + timeout]

\* /link_spotify: the entry point of spotify_conv_handler, tried only when
\* the user has no linking conversation (allow_reentry is not set).
link_spotify(u) ==
    /\ ~Busy(u)
    /\ conv[u].link.state = "none"
    /\ conv' = [conv EXCEPT ![u].link = Waiting("SPOTIFY_CODE", LinkTimeout),
                            ![u].reply = "instructions"]
    /\ UNCHANGED <<now, active_downloads, files, dl, user_contexts, tk, session, msg, cmd>>

\* /mood: the entry point of mood_conv_handler, tried only when the user
\* has no mood conversation.
set_mood(u) ==
    /\ ~Busy(u)
    /\ conv[u].mood.state = "none"
    /\ conv' = [conv EXCEPT ![u].mood = Waiting("MOOD", MoodTimeout),
                            ![u].reply = "mood_prompt"]
    /\ UNCHANGED <<now, active_downloads, files, dl, user_contexts, tk, session, msg, cmd>>

\* A command no registered handler accepts in the user's state: an entry
\* command of a conversation that is in a state, or /cancel without a
\* conversation.  Nothing is answered and no timeout job is touched.
Unhandled(u, command) ==
    \/ command = "link_spotify" /\ conv[u].link.state # "none"
    \/ command = "mood" /\ conv[u].mood.state # "none"
    \/ command = "cancel" /\ conv[u].link.state = "none" /\ conv[u].mood.state = "none"

unhandled(u, command) ==
    /\ ~Busy(u)
    /\ Unhandled(u, command)
    /\ conv' = [conv EXCEPT ![u].reply = "none"]
    /\ UNCHANGED <<now, active_downloads, files, dl, user_contexts, tk, session, msg, cmd>>

\* /cancel: the fallback of both conversations; spotify_conv_handler is
\* registered first and takes the update when it is in a state.
cancel(u) ==
    /\ ~Busy(u)
    /\ conv[u].link.state # "none" \/ conv[u].mood.state # "none"
    /\ conv' = [conv EXCEPT
            ![u].link = IF conv[u].link.state # "none" THEN NoDialog ELSE @,
            ![u].mood = IF conv[u].link.state # "none" THEN @ ELSE NoDialog,
            ![u].reply = "cancelled"]
    /\ UNCHANGED <<now, active_downloads, files, dl, user_contexts, tk, session, msg, cmd>>

\* The cancel button dropping the stored tokens with the conversation.
cancel_spotify_unlinks(u) ==
    /\ ~Busy(u)
    /\ conv' = [conv EXCEPT ![u].link = NoDialog, ![u].reply = "link_cancelled"]
    /\ user_contexts' = [user_contexts EXCEPT ![u] = NoSpotify]
    /\ UNCHANGED <<now, active_downloads, files, dl, tk, session, msg, cmd>>

\* The "Cancel Linking" button: cancel_spotify in the conversation, the
\* general button handler after it (the button outlives the conversation);
\* both answer that linking is cancelled.
cancel_spotify(u) ==
    /\ ~Busy(u)
    /\ conv' = [conv EXCEPT ![u].link = NoDialog, ![u].reply = "link_cancelled"]
    /\ UNCHANGED <<now, active_downloads, files, dl, user_contexts, tk, session, msg, cmd>>

\* The mood button ending the conversation.
mood_button_ends(u, mood) ==
    /\ ~Busy(u)
    /\ session' = [session EXCEPT ![u].mood = mood]
    /\ conv' = [conv EXCEPT
            ![u].mood = IF @.state = "MOOD" THEN NoDialog ELSE @,
            ![u].reply = "pref_prompt"]
    /\ UNCHANGED <<now, active_downloads, files, dl, user_contexts, tk, msg, cmd>>

\* enhanced_button_handler for a mood button: the mood is written; in state
\* MOOD the conversation goes to PREFERENCE, elsewhere the general button
\* handler ran and its return value is dropped.
mood_button(u, mood) ==
    /\ ~Busy(u)
    /\ session' = [session EXCEPT ![u].mood = mood]
    /\ conv' = [conv EXCEPT
            ![u].mood = IF @.state = "MOOD" THEN Waiting("PREFERENCE", MoodTimeout) ELSE @,
            ![u].reply = "pref_prompt"]
    /\ UNCHANGED <<now, active_downloads, files, dl, user_contexts, tk, msg, cmd>>

\* A genre button that is taken only by the conversation in PREFERENCE.
pref_button_guarded(u, preference) ==
    /\ ~Busy(u)
    /\ session' = [session EXCEPT ![u].preferences =
            IF conv[u].mood.state # "PREFERENCE" THEN @
            ELSE IF preference \in {"skip", "any"} THEN <<>> ELSE <<preference>>]
    /\ conv' = [conv EXCEPT
            ![u].mood = IF @.state = "PREFERENCE" THEN NoDialog ELSE @,
            ![u].reply = "pref_done"]
    /\ UNCHANGED <<now, active_downloads, files, dl, user_contexts, tk, msg, cmd>>

\* enhanced_button_handler for a genre button: the preferences are written;
\* in state PREFERENCE the conversation ends.
pref_button(u, preference) ==
    /\ ~Busy(u)
    /\ session' = [session EXCEPT ![u].preferences =
            IF preference \in {"skip", "any"} THEN <<>> ELSE <<preference>>]
    /\ conv' = [conv EXCEPT
            ![u].mood = IF @.state = "PREFERENCE" THEN NoDialog ELSE @,
            ![u].reply = "pref_done"]
    /\ UNCHANGED <<now, active_downloads, files, dl, user_contexts, tk, msg, cmd>>

\* not code_to_use or len(code_to_use) < 50
TooShort_inclusive(len) == len <= MinCodeLen

TooShort(len) == len < MinCodeLen

\* spotify_code_handler up to its first return or to the await of
\* get_user_spotify_token, for a code of length len that came through
\* `via`: a short code is answered and the handler returns SPOTIFY_CODE,
\* which the conversation takes as its state and the global handler drops.
CodeReceived(c, u, via, len) ==
    IF TooShort(len)
    THEN /\ conv' = [conv EXCEPT
                ![u].link = IF via = "conversation"
                            THEN Waiting("SPOTIFY_CODE", LinkTimeout) ELSE @,
                ![u].reply = "too_short"]
         /\ UNCHANGED tk
    ELSE /\ tk' = [tk EXCEPT ![c] = [IdleTk EXCEPT !.pc = "link_post", !.user_id = u]]
         /\ conv' = [conv EXCEPT
                ![u].link = IF via = "conversation"
                            THEN [@ EXCEPT !.deadline = 0] ELSE @,
                ![u].reply = "validating",
                ![u].task = c, ![u].via = via]

\* A text that is not a command, in state SPOTIFY_CODE: the MessageHandler
\* of spotify_conv_handler calls spotify_code_handler with the text as code.
spotify_conv_handler(c, u, len) ==
    /\ ~Busy(u) /\ tk[c].pc = "idle"
    /\ conv[u].link.state = "SPOTIFY_CODE"
    /\ len > 0
    /\ CodeReceived(c, u, "conversation", len)
    /\ UNCHANGED <<now, active_downloads, files, dl, user_contexts, session, msg, cmd>>

\* /spotify_code: the global CommandHandler is registered before the
\* conversations and takes the command in every state.  Without argument
\* it asks for the code; otherwise it calls spotify_code_handler and
\* returns what that returns, to no conversation.
spotify_code_command(c, u, len) ==
    /\ ~Busy(u) /\ tk[c].pc = "idle"
    /\ IF len = 0
       THEN /\ conv' = [conv EXCEPT ![u].reply = "usage"]
            /\ UNCHANGED tk
       ELSE CodeReceived(c, u, "global", len)
    /\ UNCHANGED <<now, active_downloads, files, dl, user_contexts, session, msg, cmd>>

\* token_data = await get_user_spotify_token(user_id, code_to_use) in
\* spotify_code_handler: refused, the handler edits its status message and
\* is about to return SPOTIFY_CODE; otherwise the pair is stored and
\* get_user_spotify_data asks for the access token.
token_data_received(c, resp) ==
    /\ tk[c].pc = "link_post"
    /\ conv[tk[c].user_id].task = c
    /\ IF LinkRefused(resp)
       THEN /\ tk' = [tk EXCEPT ![c] = TkReturned(tk[c].user_id, "none")]
            /\ UNCHANGED user_contexts
       ELSE Enter(c, tk[c].user_id, LinkedPair(resp))
    /\ conv' = [conv EXCEPT
            ![tk[c].user_id].outcome = IF LinkRefused(resp) THEN "refused" ELSE "linked",
            ![tk[c].user_id].reply = IF LinkRefused(resp) THEN "failed" ELSE @]
    /\ UNCHANGED <<now, active_downloads, files, dl, session, msg, cmd>>

\* The value spotify_code_handler returns, applied by the conversation.
Returned_stay(dialog, outcome) == Waiting("SPOTIFY_CODE", LinkTimeout)

Returned_conv(dialog, outcome) ==
    IF outcome = "linked" THEN NoDialog ELSE Waiting("SPOTIFY_CODE", LinkTimeout)

\* spotify_code_handler returns: END after a link, SPOTIFY_CODE after a
\* refusal.  The conversation takes the value as its state; returned
\* through spotify_code_command it changes no conversation.
spotify_code_handler_returns(c) ==
    /\ tk[c].pc = "done"
    /\ conv[tk[c].user_id].task = c
    /\ LET u == tk[c].user_id
       IN  conv' = [conv EXCEPT
                ![u].link = IF conv[u].via = "conversation"
                            THEN Returned_conv(@, conv[u].outcome) ELSE @,
                ![u].reply = IF conv[u].outcome = "linked" THEN "linked" ELSE "failed",
                ![u].task = 0, ![u].via = "none", ![u].outcome = "none"]
    /\ tk' = [tk EXCEPT ![c] = IdleTk]
    /\ UNCHANGED <<now, active_downloads, files, dl, user_contexts, session, msg, cmd>>

\* The timeout job of a conversation runs: the conversation is dropped.
TimedOut_keeps(dialog) == [dialog EXCEPT !.deadline = 0]

TimedOut(dialog) == NoDialog

conversation_timeout(u, kind) ==
    /\ ~Busy(u)
    /\ conv[u][kind].deadline # 0
    /\ now >= conv[u][kind].deadline
    /\ conv' = [conv EXCEPT ![u][kind] = TimedOut(@)]
    /\ UNCHANGED <<now, active_downloads, files, dl, user_contexts, tk, session, msg, cmd>>

\* Time passes, up to the next moment a timeout job is due.
Elapse ==
    /\ now < MaxDlgTime
    /\ \A u \in Users : \A kind \in {"link", "mood"} :
           conv[u][kind].deadline = 0 \/ now < conv[u][kind].deadline
    /\ now' = now + MoodTimeout
    /\ UNCHANGED <<active_downloads, files, dl, user_contexts, tk, chatvars>>

\* ================================================================= commands

\* A text of chars characters, each of which encodes to width bytes of
\* UTF-8 (1 for ASCII, 2 for Cyrillic, 3 for CJK, 4 for emoji).
Str(chars, width) == [chars |-> chars, width |-> width]

EmptyStr == Str(0, 1)

\* text[:n]: slicing counts characters.
Slice(text, n) == [text EXCEPT !.chars = IF @ < n THEN @ ELSE n]

\* len(text.encode("utf-8"))
ByteLen(text) == text.chars * text.width

\* Query texts: a /search argument, a song_query of the classification, a
\* "<track> <artists>" line of a recommendation.
QueryTexts == {Str(n, w) : n \in 1..MaxQueryLen, w \in 1..MaxCharBytes}

\* A video id that passed ^[0-9A-Za-z_-]{11}$: eleven ASCII characters.
VideoId == Str(VideoIdLen, 1)

\* What search_youtube_sync returns, as one flag per entry: whether the
\* entry has a title and an id of that form.  A search that raised gives
\* the empty list.
SearchLists == {<<>>, <<FALSE>>, <<TRUE>>, <<TRUE, FALSE>>, <<TRUE, TRUE>>}

\* The CB_* prefixes and constants with their lengths; all are ASCII.
PrefixLen ==
    [download_ |-> 9, auto_download_ |-> 14, show_options_ |-> 13,
     cancel_search |-> 13]

\* callback_data=f"{prefix}{arg}"
Payload(prefix, arg) == [prefix |-> prefix, arg |-> arg]

\* len(callback_data.encode("utf-8"))
CallbackBytes(payload) == PrefixLen[payload.prefix] + ByteLen(payload.arg)

NoSeeds == [token |-> "", seed_tracks |-> <<>>, seed_genres |-> <<>>, seed_artists |-> <<>>]

NoParams == [seed_tracks |-> <<>>, seed_genres |-> <<>>, seed_artists |-> <<>>]

\* A command or button handler in flight, or a call of
\* get_spotify_recommendations: what it was called with, the search results
\* it holds, the last message it sent with the callback payloads of its
\* keyboard, the exception that left it (if one did), and for the
\* recommendation call the request parameters, whether the endpoint was
\* called, and how many tracks it returned.
IdleCmd ==
    [pc |-> "idle", user_id |-> NoUser, kind |-> "none", query |-> EmptyStr,
     results |-> <<>>, sent |-> "none", keyboard |-> <<>>, exc |-> "none",
     seeds |-> NoSeeds, params |-> NoParams, called |-> FALSE, tracks |-> 0]

\* The handler returned after sending text (with keyboard, if any).
Sent(k, text, keyboard) ==
    [cmd[k] EXCEPT !.pc = "done", !.sent = text, !.keyboard = keyboard]

\* An exception left the handler; the dispatcher hands it to error_handler.
Raised(k, exc) == [cmd[k] EXCEPT !.pc = "done", !.exc = exc]

\* search_command up to its await of the search: without arguments the
\* usage text is sent; otherwise the "Searching" status message is sent,
\* which may fail in the transport.
search_command(k, user_id, query, delivered) ==
    /\ cmd[k].pc = "idle"
    /\ LET called == [IdleCmd EXCEPT !.user_id = user_id, !.kind = "search",
                                     !.query = query]
       IN  cmd' = [cmd EXCEPT ![k] =
                IF ~delivered
                THEN [called EXCEPT !.pc = "done", !.exc = "TelegramError"]
                ELSE IF query = EmptyStr
                THEN [called EXCEPT !.pc = "done", !.sent = "usage"]
                ELSE [called EXCEPT !.pc = "search_youtube_sync", !.sent = "searching"]]
    /\ UNCHANGED <<now, active_downloads, files, dl, user_contexts, tk, conv, session, msg>>

\* enhanced_button_handler, the CB_SHOW_OPTIONS_PREFIX branch up to its
\* await of the search: the query is what follows the prefix in the
\* payload; the message with the button is edited.
show_options_button(k, user_id, search_query_str, delivered) ==
    /\ cmd[k].pc = "idle"
    /\ LET called == [IdleCmd EXCEPT !.user_id = user_id, !.kind = "show_options",
                                     !.query = search_query_str]
       IN  cmd' = [cmd EXCEPT ![k] =
                IF ~delivered
                THEN [called EXCEPT !.pc = "done", !.exc = "TelegramError"]
                ELSE IF search_query_str = EmptyStr
                THEN [called EXCEPT !.pc = "done", !.sent = "query_lost"]
                ELSE [called EXCEPT !.pc = "search_youtube_sync", !.sent = "fetching"]]
    /\ UNCHANGED <<now, active_downloads, files, dl, user_contexts, tk, conv, session, msg>>

\* search_youtube_sync returns in its thread; search_command then deletes
\* the status message, ignoring a failure of the deletion.
search_youtube_sync_returns(k, results) ==
    /\ cmd[k].pc = "search_youtube_sync"
    /\ cmd' = [cmd EXCEPT ![k].pc = "send_search_results", ![k].results = results]
    /\ UNCHANGED <<now, active_downloads, files, dl, user_contexts, tk, conv, session, msg>>

\* keyboard_rows of send_search_results before the cancel row: one download
\* button per valid entry.
RECURSIVE keyboard_rows(_)
keyboard_rows(results) ==
    IF results = <<>> THEN <<>>
    ELSE (IF Head(results) THEN <<Payload("download_", VideoId)>> ELSE <<>>)
         \o keyboard_rows(Tail(results))

\* The names send_search_results(update, query, results) can read: its
\* parameters (the module binds no global named context).
send_search_results_names == {"update", "query", "results"}

\* send_search_results: the no-results text, the text for results that are
\* all invalid, or the list with its download buttons and the cancel row.
\* Each of the three is sent with context.bot.send_message; reading an
\* unbound name raises NameError before anything is sent.
send_search_results(k) ==
    /\ cmd[k].pc = "send_search_results"
    /\ LET results == cmd[k].results
       IN  cmd' = [cmd EXCEPT ![k] =
                IF "context" \notin send_search_results_names
                THEN Raised(k, "NameError")
                ELSE IF results = <<>>
                THEN Sent(k, "no_results", <<>>)
                ELSE IF keyboard_rows(results) = <<>>
                THEN Sent(k, "unprocessed_results", <<>>)
                ELSE Sent(k, "results",
                          keyboard_rows(results) \o <<Payload("cancel_search", EmptyStr)>>)]
    /\ UNCHANGED <<now, active_downloads, files, dl, user_contexts, tk, conv, session, msg>>

\* The handler's frame is released.
command_handled(k) ==
    /\ cmd[k].pc = "done"
    /\ cmd' = [cmd EXCEPT ![k] = IdleCmd]
    /\ UNCHANGED <<now, active_downloads, files, dl, user_contexts, tk, conv, session, msg>>

\* music_query[:30]
cb_music_query(music_query) == Slice(music_query, MusicQueryCut)

\* yt_query[:40]
cb_yt_query(yt_query) == Slice(yt_query, YtQueryCut)

\* enhanced_handle_message, the branch of a detected music request (the
\* status message, the search for one result and the edit, taken as one
\* step): with a valid first result the user is offered its download, more
\* search options for the truncated query, or to cancel.
music_request_branch(k, user_id, music_query, results) ==
    /\ cmd[k].pc = "idle"
    /\ LET called == [IdleCmd EXCEPT !.user_id = user_id, !.kind = "music_request",
                                     !.query = music_query, !.results = results]
       IN  cmd' = [cmd EXCEPT ![k] =
                IF results # <<>> /\ Head(results)
                THEN [called EXCEPT !.pc = "done", !.sent = "offer",
                        !.keyboard = <<Payload("auto_download_", VideoId),
                                       Payload("show_options_", cb_music_query(music_query)),
                                       Payload("cancel_search", EmptyStr)>>]
                ELSE [called EXCEPT !.pc = "done", !.sent = "not_found"]]
    /\ UNCHANGED <<now, active_downloads, files, dl, user_contexts, tk, conv, session, msg>>

\* kb_spotify_recs: one "YT Search" button per recommended track, carrying
\* the truncated "<name> <artists>" query.
RECURSIVE kb_spotify_recs(_)
kb_spotify_recs(spotify_recs) ==
    IF spotify_recs = <<>> THEN <<>>
    ELSE <<Payload("show_options_", cb_yt_query(Head(spotify_recs)))>>
         \o kb_spotify_recs(Tail(spotify_recs))

\* smart_recommend_music from the answer of the recommendation call on
\* (taken as one step): the recommended tracks, given by their YouTube
\* queries, are listed with their buttons; without any, YouTube is searched
\* and its valid results are listed with download buttons; without those
\* the generic recommendations are sent, which carry no keyboard.
smart_recommend_music(k, user_id, spotify_recs, yt_results) ==
    /\ cmd[k].pc = "idle"
    /\ LET called == [IdleCmd EXCEPT !.user_id = user_id, !.kind = "recommend",
                                     !.results = yt_results]
       IN  cmd' = [cmd EXCEPT ![k] =
                IF spotify_recs # <<>>
                THEN [called EXCEPT !.pc = "done", !.sent = "spotify_recs",
                                    !.results = <<>>,
                                    !.keyboard = kb_spotify_recs(spotify_recs)]
                ELSE IF keyboard_rows(yt_results) # <<>>
                THEN [called EXCEPT !.pc = "done", !.sent = "youtube_recs",
                                    !.keyboard = keyboard_rows(yt_results)]
                ELSE [called EXCEPT !.pc = "done", !.sent = "generic_recs"]]
    /\ UNCHANGED <<now, active_downloads, files, dl, user_contexts, tk, conv, session, msg>>

\* s[:n] of a list, n >= 0.
Take(s, n) == SubSeq(s, 1, IF Len(s) < n THEN Len(s) ELSE n)

\* max(0, 5 - seed_count)
Room(seed_count) == IF SeedCap - seed_count > 0 THEN SeedCap - seed_count ELSE 0

\* Every list cut to five on its own.
SeedParams_each(seed_tracks, seed_genres, seed_artists) ==
    [seed_tracks |-> Take(seed_tracks, SeedCap),
     seed_genres |-> Take(seed_genres, SeedCap),
     seed_artists |-> Take(seed_artists, SeedCap)]

\* params of get_spotify_recommendations: the tracks first, then the genres
\* and the artists while seed_count < 5, each cut to the room left.  A seed
\* list that is absent from params is the empty list here.
SeedParams(seed_tracks, seed_genres, seed_artists) ==
    LET tracks == IF seed_tracks # <<>> THEN Take(seed_tracks, Room(0)) ELSE <<>>
        count1 == Len(tracks)
        genres == IF seed_genres # <<>> /\ count1 < SeedCap
                  THEN Take(seed_genres, Room(count1)) ELSE <<>>
        count2 == count1 + Len(genres)
        artists == IF seed_artists # <<>> /\ count2 < SeedCap
                   THEN Take(seed_artists, Room(count2)) ELSE <<>>
    IN  [seed_tracks |-> tracks, seed_genres |-> genres, seed_artists |-> artists]

\* seed_count after the three blocks
SeedCount(params) ==
    Len(params.seed_tracks) + Len(params.seed_genres) + Len(params.seed_artists)

\* A seed list of n entries; None and [] are both the empty list.
SeedList(kind, n) == [i \in 1..n |-> <<kind, i>>]

SeedLists(kind) == {SeedList(kind, n) : n \in 0..MaxSeeds}

\* get_spotify_recommendations up to its request: without a token, or with
\* no seed in params, it returns [] at once; otherwise it sends params to
\* the endpoint.
get_spotify_recommendations(k, token, seed_tracks, seed_genres, seed_artists) ==
    /\ cmd[k].pc = "idle"
    /\ LET params == SeedParams(seed_tracks, seed_genres, seed_artists)
           called == [IdleCmd EXCEPT !.kind = "get_spotify_recommendations",
                        !.seeds = [token |-> token, seed_tracks |-> seed_tracks,
                                   seed_genres |-> seed_genres,
                                   seed_artists |-> seed_artists]]
       IN  cmd' = [cmd EXCEPT ![k] =
                IF token = "" THEN [called EXCEPT !.pc = "done"]
                ELSE IF SeedCount(params) = 0
                THEN [called EXCEPT !.pc = "done"]
                ELSE [called EXCEPT !.pc = "recommendations", !.params = params,
                                    !.called = TRUE]]
    /\ UNCHANGED <<now, active_downloads, files, dl, user_contexts, tk, conv, session, msg>>

\* The request ends: the tracks of the response, or [] after a
\* ClientError or any other exception, which are caught (so the retry
\* decorator never runs the call again).
recommendations_returned(k, response) ==
    /\ cmd[k].pc = "recommendations"
    /\ cmd' = [cmd EXCEPT ![k].pc = "done",
                          ![k].tracks = IF response = "tracks" THEN 1 ELSE 0]
    /\ UNCHANGED <<now, active_downloads, files, dl, user_contexts, tk, conv, session, msg>>

\* clear_history with the two resets its comment leaves out: the mood and
\* the preferences are cleared too.
clear_history_all(k, user_id) ==
    /\ cmd[k].pc = "idle"
    /\ LET cleared == session[user_id].conversation_history # <<>>
       IN  /\ session' = [session EXCEPT ![user_id].conversation_history = <<>>,
                                          ![user_id].mood = "none",
                                          ![user_id].preferences = <<>>]
           /\ cmd' = [cmd EXCEPT ![k] =
                [IdleCmd EXCEPT !.pc = "done", !.user_id = user_id, !.kind = "clear",
                    !.sent = IF cleared THEN "cleared" ELSE "nothing_to_clear"]]
    /\ UNCHANGED <<now, active_downloads, files, dl, user_contexts, tk, conv, msg>>

\* clear_history up to its reply: a stored, non-empty history is replaced
\* by the empty list; the reply says which of the two happened.
clear_history(k, user_id) ==
    /\ cmd[k].pc = "idle"
    /\ LET cleared == session[user_id].conversation_history # <<>>
       IN  /\ session' = [session EXCEPT ![user_id].conversation_history = <<>>]
           /\ cmd' = [cmd EXCEPT ![k] =
                [IdleCmd EXCEPT !.pc = "done", !.user_id = user_id, !.kind = "clear",
                    !.sent = IF cleared THEN "cleared" ELSE "nothing_to_clear"]]
    /\ UNCHANGED <<now, active_downloads, files, dl, user_contexts, tk, conv, msg>>

\* ------------------------------------------------------------ specification

Init ==
    /\ now = 0
    /\ active_downloads = {}
    /\ files = {}
    /\ dl = [t \in DlTasks |-> IdleDl]
    /\ user_contexts = [u \in Users |-> NoSpotify]
    /\ tk = [c \in TokTasks |-> IdleTk]
    /\ conv = [u \in Users |-> NoConv]
    /\ session = [u \in Users |-> NoSession]
    /\ msg = [m \in MsgTasks |-> IdleMsg]
    /\ cmd = [k \in CmdTasks |-> IdleCmd]

\* The download handlers; the clock stands still, so every artifact name
\* carries the same second.
NextDL ==
    \/ \E t \in DlTasks, u \in Users, url \in Vids \cup {InvalidUrl} :
           download_music(t, u, url)
    \/ \E t \in DlTasks, u \in Users, q \in Vids \cup SearchTerms :
           auto_download_first_result(t, u, q)
    \/ \E t \in DlTasks :
        \/ dm_badurl(t)
        \/ dm_reject(t)
        \/ dm_status(t)
        \/ dm_edit_fetching(t)
        \/ ad_reject(t)
        \/ ad_status(t)
        \/ ad_prefetch(t)
        \/ ad_search(t)
        \/ ad_edit_notfound(t)
        \/ ad_edit_found(t)
        \/ \E extraction \in ExtractionsDL :
               download_youtube_audio_sync(t, extraction)
        \/ edit_failed(t)
        \/ edit_downloaded(t)
        \/ send_audio_via_bot(t)
        \/ send_audio_err(t)
        \/ delete_status(t)
        \/ dm_except(t)
        \/ ad_except(t)
        \/ handler_returned(t)

SpecDL == Init /\ [][NextDL]_vars

\* The /download requests of one user, with every outcome of the extraction.
NextExt ==
    \/ \E t \in DlTasks, url \in Vids \cup {InvalidUrl} :
           download_music(t, 1, url)
    \/ \E t \in DlTasks :
        \/ dm_badurl(t)
        \/ dm_reject(t)
        \/ dm_status(t)
        \/ dm_edit_fetching(t)
        \/ \E extraction \in Extractions :
               download_youtube_audio_sync(t, extraction)
        \/ edit_failed(t)
        \/ edit_downloaded(t)
        \/ send_audio_via_bot(t)
        \/ send_audio_err(t)
        \/ delete_status(t)
        \/ dm_except(t)
        \/ handler_returned(t)

SpecExt == Init /\ [][NextExt]_vars

\* The token lifecycle: linking, the gathered calls, refresh, the clock.
NextTok ==
    \/ AdvanceTime
    \/ \E c \in TokTasks, u \in Users : spotify_code_handler(c, u)
    \/ \E u \in Users, c1 \in TokTasks, c2 \in TokTasks : fetch_spotify_data(u, c1, c2)
    \/ \E u \in Users, field \in {"access_token", "refresh_token"} :
           InvalidCiphertext(u, field)
    \/ \E c \in TokTasks, resp \in TokenResponses :
        \/ get_user_spotify_token(c, resp)
        \/ refresh_spotify_token(c, resp)
    \/ \E c \in TokTasks :
        \/ get_user_spotify_access_token(c)
        \/ call_returned(c)

SpecTok == Init /\ [][NextTok]_vars

\* The text-message handler and the mood tasks it creates.
NextMsg ==
    \/ \E m \in MsgTasks, u \in Users, text \in Texts : enhanced_handle_message(m, u, text)
    \/ \E m \in MsgTasks, raw \in LlmOutcomes : is_music_request_returns(m, raw)
    \/ \E m \in MsgTasks, ok \in BOOLEAN : generate_chat_response_returns(m, ok)
    \/ \E m \in MsgTasks, estimate \in MoodEstimates \cup {"error"} : update_mood(m, estimate)
    \/ \E m \in MsgTasks :
        \/ generate_chat_response(m)
        \/ message_handled(m)

SpecMsg == Init /\ [][NextMsg]_vars

\* The linking conversation with its code exchange.
NextLink ==
    \/ \E u \in Users :
        \/ link_spotify(u)
        \/ cancel(u)
        \/ cancel_spotify(u)
    \/ \E c \in TokTasks, u \in Users, len \in CodeLens : spotify_conv_handler(c, u, len)
    \/ \E c \in TokTasks, u \in Users, len \in CodeLens \cup {0} : spotify_code_command(c, u, len)
    \/ \E c \in TokTasks, resp \in TokenResponses :
        token_data_received(c, resp)
    \/ \E c \in TokTasks : spotify_code_handler_returns(c)

SpecLink == Init /\ [][NextLink]_vars

\* The two conversations, their entry points, fallbacks and timeouts.
NextDlg ==
    \/ Elapse
    \/ \E u \in Users :
        \/ link_spotify(u)
        \/ set_mood(u)
        \/ cancel(u)
        \/ cancel_spotify(u)
    \/ \E u \in Users, command \in {"link_spotify", "mood", "cancel"} : unhandled(u, command)
    \/ \E u \in Users, mood \in MoodButtons : mood_button(u, mood)
    \/ \E u \in Users, preference \in PrefButtons : pref_button(u, preference)
    \/ \E c \in TokTasks, u \in Users, len \in {l \in CodeLens : TooShort(l)} :
           spotify_conv_handler(c, u, len)
    \/ \E u \in Users, kind \in {"link", "mood"} : conversation_timeout(u, kind)

SpecDlg == Init /\ [][NextDlg]_vars

\* What writes the stored mood: the mood buttons and the mood tasks of the
\* text handler.
NextMood ==
    \/ \E u \in Users : set_mood(u)
    \/ \E u \in Users, mood \in {"happy", "neutral"} \cap MoodKeyboard : mood_button(u, mood)
    \/ \E m \in MsgTasks, u \in Users, text \in {t \in Texts : CreatesMoodTask(t)} :
           enhanced_handle_message(m, u, text)
    \/ \E m \in MsgTasks, raw \in {r \in LlmOutcomes : r.flag /\ r.query = "hello"} :
           is_music_request_returns(m, raw)
    \/ \E m \in MsgTasks, mood_raw \in RawMoods \cup {"error"} : update_mood(m, mood_raw)
    \/ \E m \in MsgTasks : message_handled(m)

SpecMood == Init /\ [][NextMood]_vars

\* The operations of two users side by side: /download requests whose
\* extraction fails and whose replies may fault, and the mood and genre
\* buttons.
NextIso ==
    \/ \E t \in DlTasks, u \in Users, url \in Vids : download_music(t, u, url)
    \/ \E t \in DlTasks :
        \/ dm_reject(t)
        \/ dm_status(t)
        \/ dm_edit_fetching(t)
        \/ \E extraction \in {x \in Extractions : x.kind = "no_info"} :
               download_youtube_audio_sync(t, extraction)
        \/ edit_failed(t)
        \/ dm_except(t)
        \/ error_handler(t)
        \/ handler_returned(t)
    \/ \E u \in Users : mood_button(u, "happy")
    \/ \E u \in Users : pref_button(u, "rock")

SpecIso == Init /\ [][NextIso]_vars

\* The searches and the keyboards, one handler per task: /search, the
\* music-request offer of the text handler, the recommendation lists, and
\* the show-options button.
NextSearch ==
    \/ \E k \in CmdTasks, u \in Users, query \in {EmptyStr, Str(5, 1)},
          delivered \in BOOLEAN :
           search_command(k, u, query, delivered)
    \/ \E k \in CmdTasks, u \in Users,
          search_query_str \in {EmptyStr, Str(MusicQueryCut, 1)},
          delivered \in BOOLEAN :
           show_options_button(k, u, search_query_str, delivered)
    \/ \E k \in CmdTasks, results \in SearchLists :
           search_youtube_sync_returns(k, results)
    \/ \E k \in CmdTasks : send_search_results(k)
    \/ \E k \in CmdTasks, music_query \in QueryTexts, results \in {<<>>, <<TRUE>>} :
           music_request_branch(k, 1, music_query, results)
    \/ \E k \in CmdTasks,
          spotify_recs \in {<<>>} \cup {<<q>> : q \in QueryTexts},
          yt_results \in {<<>>, <<TRUE, FALSE>>} :
           smart_recommend_music(k, 1, spotify_recs, yt_results)

SpecSearch == Init /\ [][NextSearch]_vars

\* One recommendation request, with every combination of seed lists.
NextRec ==
    \/ \E token \in {"", "token"}, seed_tracks \in SeedLists("track"),
          seed_genres \in SeedLists("genre"), seed_artists \in SeedLists("artist") :
           get_spotify_recommendations(1, token, seed_tracks, seed_genres, seed_artists)
    \/ \E response \in {"tracks", "ClientError", "Exception"} :
           recommendations_returned(1, response)

SpecRec == Init /\ [][NextRec]_vars

\* /clear among what fills a session: the chat exchanges of one user, that
\* user's mood and genre buttons, and the linking of that user's account;
\* the other user's history stays empty.
NextClr ==
    \/ \E k \in CmdTasks, u \in Users : clear_history(k, u)
    \/ \E k \in CmdTasks : command_handled(k)
    \/ enhanced_handle_message(1, 1, <<"play", "hello">>)
    \/ \E raw \in {r \in LlmOutcomes : r.kind = "error"} : is_music_request_returns(1, raw)
    \/ \E ok \in BOOLEAN : generate_chat_response_returns(1, ok)
    \/ generate_chat_response(1)
    \/ message_handled(1)
    \/ mood_button(1, "happy")
    \/ pref_button(1, "rock")
    \/ spotify_code_handler(1, 1)
    \/ \E resp \in {r \in TokenResponses : ~LinkRefused(r) /\ r.expires_in = DefaultExpiresIn} :
           get_user_spotify_token(1, resp)
    \/ call_returned(1)

SpecClr == Init /\ [][NextClr]_vars

\* ------------------------------------------------ download coordinator claims

RejectPcs == {"dm_reject", "ad_reject"}

\* The handler of task t is past the guard and has not returned yet.
NonTerminal(t) == dl[t].pc \notin ({"idle", "done", "dm_badurl"} \cup RejectPcs)

JobsOf(u) == {t \in DlTasks : dl[t].user_id = u /\ NonTerminal(t)}

\* C1: at every instant and for every user at most one download job is
\* non-terminal, whichever of the two download paths started it, and the
\* user of a non-terminal job holds the download slot.
C1_AtMostOneJobPerUser ==
    \A u \in Users :
        /\ Cardinality(JobsOf(u)) <= 1
        /\ JobsOf(u) # {} => u \in active_downloads

\* Two requests of one user, one by each path: one is past the guard, the
\* other is being rejected.
C1_Witness ==
    \E t, s \in DlTasks :
        /\ dl[t].user_id = dl[s].user_id
        /\ dl[t].kind = "ad" /\ dl[t].pc = "extract"
        /\ dl[s].pc = "dm_reject"

\* C2: once a request that passed the guard has finished, whatever its
\* outcome, its user is no longer marked as having an active download
\* (unless a later request of that user holds the slot by then).
C2_SlotReleasedOnEveryOutcome ==
    \A t \in DlTasks :
        (dl[t].pc = "done" /\ dl[t].outcome \notin {"AlreadyInProgress", "Invalid"})
            => (dl[t].user_id \notin active_downloads \/ JobsOf(dl[t].user_id) # {})

\* C3: when a request whose extraction produced an artifact finishes, the
\* artifact file no longer exists.
C3_ArtifactRemovedOnEveryOutcome ==
    [][\A t \in DlTasks :
        (dl[t].audio_path # NoPath /\ dl'[t].pc = "done")
            => dl[t].audio_path \notin files']_vars

\* C4: a valid request made while its user holds the download slot is
\* rejected at once: it goes to the rejection reply and from there only to
\* its end, and neither step changes the slot set, the files or another task.
C4_RejectedWhileActive ==
    [][\A t \in DlTasks :
        /\ (/\ dl[t].pc = "idle"
            /\ dl'[t].pc \notin {"idle", "dm_badurl"}
            /\ dl'[t].user_id \in active_downloads)
              => /\ dl'[t].pc \in RejectPcs
                 /\ active_downloads' = active_downloads
                 /\ files' = files
                 /\ \A s \in DlTasks \ {t} : dl'[s] = dl[s]
        /\ (dl[t].pc \in RejectPcs /\ dl'[t] # dl[t])
              => /\ dl'[t].pc = "done"
                 /\ dl'[t].outcome = "AlreadyInProgress"
                 /\ active_downloads' = active_downloads
                 /\ files' = files
                 /\ \A s \in DlTasks \ {t} : dl'[s] = dl[s]]_vars

\* A request was rejected and has returned while the running job of the same
\* user is still extracting and still holds the slot.
C4_Witness ==
    \E t, s \in DlTasks :
        /\ dl[s].pc = "done" /\ dl[s].outcome = "AlreadyInProgress"
        /\ dl[t].user_id = dl[s].user_id
        /\ dl[t].pc = "extract"
        /\ dl[t].user_id \in active_downloads

\* C5: a valid request of a user who holds no download slot passes the
\* guard and takes the slot, whatever slots other users hold.
C5_NoCrossUserBlocking ==
    [][\A t \in DlTasks :
        (/\ dl[t].pc = "idle"
         /\ dl'[t].pc \notin {"idle", "dm_badurl"}
         /\ dl'[t].user_id \notin active_downloads)
            => /\ dl'[t].pc \in {"dm_status", "ad_status"}
               /\ dl'[t].user_id \in active_downloads'
               /\ active_downloads \subseteq active_downloads']_vars

\* Two different users have a download in progress at the same time.
C5_Witness ==
    \E t, s \in DlTasks :
        /\ NonTerminal(t) /\ NonTerminal(s)
        /\ dl[t].user_id # dl[s].user_id
        /\ dl[t].pc = "extract" /\ dl[s].pc = "send_audio"

\* ------------------------------------------------------------ token claims

RefreshesInFlight(u) ==
    {c \in TokTasks : tk[c].pc = "refresh_post" /\ tk[c].user_id = u}

Linked(u) == user_contexts[u].access_token # NoCipher

\* C6: for every user at most one refresh exchange with the token endpoint
\* is in flight at any time, also when two calls for a user whose access
\* token has expired are started together.
C6_RefreshSerializedPerUser ==
    \A u \in Users : Cardinality(RefreshesInFlight(u)) <= 1

\* C7: in every state, for every user, an encrypted access token is stored
\* only if an encrypted refresh token is stored too.
C7_AccessOnlyWithRefresh ==
    \A u \in Users : Linked(u) => user_contexts[u].refresh_token # NoCipher

\* A call has returned the access token of a pair stored after the first
\* one expired, and the user's entry holds both tokens.
C7_Witness ==
    \E c \in TokTasks :
        /\ tk[c].pc = "done" /\ tk[c].result # "none"
        /\ now > 0
        /\ user_contexts[tk[c].user_id].access_token = encrypt(tk[c].result)
        /\ user_contexts[tk[c].user_id].refresh_token # NoCipher
        /\ user_contexts[tk[c].user_id].expires_at > now

RefreshSucceeds(resp) == resp.status = 200 /\ resp.access_token # "none"

\* C8: a refresh whose exchange fails in any way other than the provider's
\* invalid-grant rejection returns empty and leaves the user's access
\* token, refresh token and expiry as they were; a refresh that succeeds
\* replaces all three together.
C8_FailedRefreshLeavesLinkUntouched ==
    [][\A c \in TokTasks, resp \in TokenResponses :
        refresh_spotify_token(c, resp) =>
            LET u == tk[c].user_id
            IN  IF RefreshSucceeds(resp)
                THEN /\ tk'[c].result = resp.access_token
                     /\ user_contexts'[u].access_token = encrypt(resp.access_token)
                     /\ Decryptable(user_contexts'[u].refresh_token)
                     /\ user_contexts'[u].expires_at = expires_at_of(resp.expires_in)
                ELSE resp.error # "invalid_grant" =>
                     /\ tk'[c].result = "none"
                     /\ user_contexts'[u] = user_contexts[u]]_vars

\* The call of task c found a stored access token, not expired, that does
\* not decrypt.
AccessUndecryptable(c) ==
    \/ tk[c].pc = "refresh_post" /\ tk[c].repair
    \/ /\ tk[c].pc = "call"
       /\ Linked(tk[c].user_id)
       /\ ~Expired(user_contexts[tk[c].user_id])
       /\ ~Decryptable(user_contexts[tk[c].user_id].access_token)

\* C9: when a call finds the stored access token undecryptable and the
\* refresh it then invokes fails, for whatever reason, the call returns
\* empty and the user's stored link is cleared.
C9_UndecryptableThenFailedRefreshClears ==
    [][\A c \in TokTasks :
        (AccessUndecryptable(c) /\ tk'[c].pc = "done" /\ tk'[c].result = "none")
            => user_contexts'[tk'[c].user_id] = NoSpotify]_vars

\* C10: when the provider rejects the exchange with invalid_grant, the
\* refresh returns empty and nothing of the user's link remains stored.
C10_InvalidGrantClearsLink ==
    [][\A c \in TokTasks, resp \in TokenResponses :
        (refresh_spotify_token(c, resp) /\ resp.error = "invalid_grant") =>
            /\ tk'[c].pc = "done" /\ tk'[c].result = "none"
            /\ user_contexts'[tk[c].user_id] = NoSpotify]_vars

\* A refresh has returned from an invalid_grant rejection and the user has
\* no link.
C10_Witness ==
    \E c \in TokTasks :
        /\ tk[c].pc = "done" /\ tk[c].exc = "invalid_grant"
        /\ tk[c].result = "none"
        /\ user_contexts[tk[c].user_id] = NoSpotify

\* C11: a call for a user with nothing stored returns empty; a call never
\* returns a stored access token once the clock is past its expires_at
\* (past that point a token comes only out of a refresh); and every expiry
\* stored, by linking or by refresh, is the time of issue plus the provider
\* lifetime minus the 60 second margin.
C11_NoStoredTokenPastExpiry ==
    [][\A c \in TokTasks :
        (tk[c].pc # "done" /\ tk'[c].pc = "done") =>
            LET u == tk'[c].user_id
            IN  /\ (tk[c].pc = "call" /\ user_contexts[u] = NoSpotify)
                    => tk'[c].result = "none"
                /\ (tk'[c].result # "none" /\ tk[c].pc # "refresh_post")
                    => /\ user_contexts'[u].access_token = encrypt(tk'[c].result)
                       /\ ~(now > user_contexts'[u].expires_at)
                /\ (user_contexts'[u].expires_at # user_contexts[u].expires_at
                        /\ user_contexts'[u].expires_at # 0)
                    => user_contexts'[u].expires_at = now + DefaultExpiresIn - Margin]_vars

\* A call found the stored access token past its expiry and is refreshing
\* instead of returning it.
C11_Witness ==
    \E c \in TokTasks :
        /\ tk[c].pc = "refresh_post" /\ ~tk[c].repair
        /\ user_contexts[tk[c].user_id].access_token # NoCipher
        /\ now > user_contexts[tk[c].user_id].expires_at

\* ---------------------------------------------------------------- messages

\* The entry at position j of everything ever appended to a history.
Appended(j) == <<IF j % 2 = 1 THEN "user" ELSE "assistant", (j + 1) \div 2>>

\* C12: for every user, after any number of chat exchanges, the stored
\* conversation history holds at most 12 entries, and they are the most
\* recently appended ones, in the order they were appended.
C12_HistoryAtMostTwelve ==
    \A u \in Users :
        LET h == session[u].conversation_history
            total == 2 * session[u].exchanges
        IN  /\ Len(h) <= HistoryWindow
            /\ \A i \in 1..Len(h) : h[i] = Appended(total - Len(h) + i)

HasLyricsPrefix(text) ==
    /\ Len(text) > 2
    /\ text[1] = "lyrics" /\ text[2] \in {"for", "to"}

\* C13 (as stated): a text without a URL that starts with a lyrics prefix
\* and has a remainder is handled as a LyricsRequest with the remainder as
\* query, whatever the classification call returns.
C13_LyricsBeforeClassification ==
    [][\A m \in MsgTasks : \A raw \in LlmOutcomes :
        (is_music_request_returns(m, raw) /\ HasLyricsPrefix(msg[m].text))
        => /\ msg'[m].route = "LyricsRequest"
           /\ msg'[m].query = SubSeq(msg[m].text, 3, Len(msg[m].text))]_vars

\* C13 (amended): the checks run in the order URL, classification, lyrics
\* prefix, chat: a text without a URL that starts with a lyrics prefix and
\* has a remainder is handled as a MusicRequest when the classification
\* flags a music request with a non-blank query, and as a LyricsRequest
\* with the remainder as query in every other case.
C13_LyricsAfterClassification ==
    [][\A m \in MsgTasks : \A raw \in LlmOutcomes :
        (is_music_request_returns(m, raw) /\ HasLyricsPrefix(msg[m].text))
        => IF raw.kind = "dict" /\ raw.flag /\ raw.query \notin {"none", ""}
           THEN /\ msg'[m].route = "MusicRequest"
                /\ msg'[m].query = <<raw.query>>
           ELSE /\ msg'[m].route = "LyricsRequest"
                /\ msg'[m].query = SubSeq(msg[m].text, 3, Len(msg[m].text))]_vars

C13_Witness ==
    \E m \in MsgTasks :
        /\ msg[m].pc = "done" /\ msg[m].route = "LyricsRequest"
        /\ msg[m].query = <<"hello">>

\* C14: a text in which the URL pattern is found is handled as a
\* DirectMediaLink: the handler goes to the download path and returns, and
\* never reaches the classification call, whatever that call would answer.
C14_UrlAlwaysDirectMediaLink ==
    [][\A m \in MsgTasks : \A u \in Users : \A text \in Texts :
        (enhanced_handle_message(m, u, text) /\ \E i \in 1..Len(text) : text[i] \in Vids)
        => /\ msg'[m].pc = "done"
           /\ msg'[m].route = "DirectMediaLink"]_vars

C14_Witness ==
    \E m \in MsgTasks : msg[m].pc = "done" /\ msg[m].route = "DirectMediaLink"

\* C15 (as stated): every inbound text of more than 3 tokens creates a mood
\* re-estimation task, a text with a direct media link included.
C15_MoodTaskForEveryLongText ==
    [][\A m \in MsgTasks : \A u \in Users : \A text \in Texts :
        (enhanced_handle_message(m, u, text) /\ Len(text) > 3)
        => msg'[m].mood_pc = "running" /\ msg'[m].mood_user = u]_vars

\* C15 (amended): an inbound text of more than 3 tokens in which no URL is
\* found creates one mood re-estimation task, whatever the text is then
\* classified as; a text with a direct media link, or of 3 tokens or fewer,
\* creates none; the handler goes on while the task is running.
C15_MoodTaskForLongTextWithoutUrl ==
    [][\A m \in MsgTasks : \A u \in Users : \A text \in Texts :
        enhanced_handle_message(m, u, text)
        => /\ IF Len(text) > 3 /\ \A i \in 1..Len(text) : text[i] \notin Vids
              THEN msg'[m].mood_pc = "running" /\ msg'[m].mood_user = u
              ELSE msg'[m].mood_pc = "none"
           /\ msg'[m].pc = "is_music_request"
              => (ENABLED is_music_request_returns(m, [kind |-> "error", flag |-> FALSE, query |-> "none"]))'
       ]_vars

\* The handler has returned and its mood task is still running.
C15_Witness ==
    \E m \in MsgTasks :
        /\ msg[m].pc = "done" /\ msg[m].route \in {"MusicRequest", "LyricsRequest", "GenericChat"}
        /\ msg[m].mood_pc = "running"

\* ----------------------------------------------------------------- dialogs

\* The exchange answered with both tokens.
BothTokens(resp) ==
    resp.status = 200 /\ resp.access_token # "none" /\ resp.refresh_token # "none"

\* C16: in AwaitingCode, a plausible code, sent as free text or as the
\* argument of /spotify_code, whose exchange is answered with both tokens,
\* stores the encrypted access token, the encrypted refresh token and the
\* expiry for the user and moves the linking flow to End.
C16_PlausibleCodeLinksAndEnds ==
    [][\A c \in TokTasks :
        LET u == tk[c].user_id
        IN  /\ \A resp \in TokenResponses :
                (/\ token_data_received(c, resp)
                 /\ conv[u].link.state = "SPOTIFY_CODE"
                 /\ BothTokens(resp))
                => user_contexts'[u] = LinkedPair(resp)
            /\ (/\ spotify_code_handler_returns(c)
                /\ conv[u].link.state = "SPOTIFY_CODE"
                /\ conv[u].outcome = "linked")
               => conv'[u].link.state = "none"]_vars

\* C17: in AwaitingCode, when the exchange of a plausible code fails (an
\* endpoint error, or an answer without the access token or without the
\* refresh token), the stored link is what it was before the attempt and
\* the linking flow stays in AwaitingCode.
C17_FailedExchangeKeepsStateAndLink ==
    [][\A c \in TokTasks :
        LET u == tk[c].user_id
        IN  /\ \A resp \in TokenResponses :
                (/\ token_data_received(c, resp)
                 /\ conv[u].link.state = "SPOTIFY_CODE"
                 /\ ~BothTokens(resp))
                => /\ user_contexts' = user_contexts
                   /\ conv'[u].outcome = "refused"
                   /\ tk'[c].pc = "done"
            /\ (/\ spotify_code_handler_returns(c)
                /\ conv[u].link.state = "SPOTIFY_CODE"
                /\ conv[u].outcome = "refused")
               => /\ conv'[u].link.state = "SPOTIFY_CODE"
                  /\ conv'[u].reply = "failed"
                  /\ user_contexts' = user_contexts]_vars

\* A failed exchange has returned to a user who is waiting for a code.
C17_Witness ==
    \E u \in Users :
        /\ ~Busy(u) /\ conv[u].reply = "failed"
        /\ conv[u].link.state = "SPOTIFY_CODE"

C19_ReentryStartsAfresh ==
    [][\A u \in Users :
        /\ (/\ conv[u].mood.state = "PREFERENCE"
            /\ set_mood(u) \/ unhandled(u, "mood"))
           => conv'[u].mood.state = "MOOD"
        /\ (/\ conv[u].link.state = "SPOTIFY_CODE"
            /\ link_spotify(u) \/ unhandled(u, "link_spotify"))
           => conv'[u].link.state = "SPOTIFY_CODE"]_vars

\* A flow is in a waiting state only up to its timeout after the last
\* input it took.
WithinTimeout(dialog) ==
    dialog.state # "none" => dialog.deadline # 0 /\ now <= dialog.deadline

\* C20: a MoodCapture flow without input for longer than 5 minutes, and an
\* AccountLinking flow without input for longer than 10 minutes, is absent;
\* an entry then starts the flow at its first waiting state with the full
\* timeout ahead.
C20_TimedOutFlowIsAbsent ==
    [][\A u \in Users :
        /\ WithinTimeout(conv[u].mood)' /\ WithinTimeout(conv[u].link)'
        /\ (conv'[u].mood # conv[u].mood /\ conv'[u].mood.state # "none")
           => conv'[u].mood.deadline = now' + 300
        /\ (conv'[u].link # conv[u].link /\ conv'[u].link.state # "none")
           => conv'[u].link.deadline = now' + 600
        /\ (set_mood(u) /\ now > conv[u].mood.deadline)
           => conv'[u].mood.state = "MOOD"
        /\ (link_spotify(u) /\ now > conv[u].link.deadline)
           => conv'[u].link.state = "SPOTIFY_CODE"]_vars

\* A mood flow has timed out: the user's last update was answered with the
\* mood keyboard, and the flow is absent.
C20_Witness ==
    \E u \in Users :
        /\ conv[u].mood.state = "none"
        /\ conv[u].reply = "mood_prompt"
        /\ now >= 300

\* C21: the mood flow only moves Start, AwaitingMood, AwaitingPreference,
\* End: a mood button in AwaitingMood moves to AwaitingPreference; a genre
\* button in AwaitingPreference sets the preferences to exactly that genre,
\* skip (and "any") to empty, and either ends the flow; no state is skipped
\* or entered again within one instance.
C21_MoodFlowOrder ==
    [][\A u \in Users :
        /\ \A mood \in MoodButtons :
            (mood_button(u, mood) /\ conv[u].mood.state = "MOOD")
            => conv'[u].mood.state = "PREFERENCE" /\ session'[u].mood = mood
        /\ \A preference \in PrefButtons :
            (pref_button(u, preference) /\ conv[u].mood.state = "PREFERENCE")
            => /\ conv'[u].mood.state = "none"
               /\ session'[u].preferences =
                    IF preference \in {"skip", "any"} THEN <<>> ELSE <<preference>>
        /\ conv'[u].mood.state # conv[u].mood.state
           => <<conv[u].mood.state, conv'[u].mood.state>> \in
                {<<"none", "MOOD">>, <<"MOOD", "PREFERENCE">>,
                 <<"PREFERENCE", "none">>, <<"MOOD", "none">>}]_vars

\* A flow has run through: mood and genre are stored and the flow is over.
C21_Witness ==
    \E u \in Users :
        /\ conv[u].mood.state = "none" /\ conv[u].reply = "pref_done"
        /\ session[u].mood = "happy" /\ session[u].preferences = <<"rock">>

\* C22: a cancel signal received in AwaitingMood or in AwaitingPreference
\* moves the mood flow to End and changes nothing in the user's session: the
\* mood, the genre preferences, the history and the stored link stay.
C22_CancelEndsMoodFlow ==
    [][\A u \in Users :
        (/\ cancel(u) \/ unhandled(u, "cancel")
         /\ conv[u].mood.state \in {"MOOD", "PREFERENCE"})
        => /\ conv'[u].mood.state = "none"
           /\ session'[u] = session[u]
           /\ user_contexts'[u] = user_contexts[u]]_vars

\* C23: a cancel signal (the cancel button or /cancel) received while the
\* linking flow is in AwaitingCode moves the flow to End and leaves the
\* stored link of every user as it was.
C23_CancelEndsLinkFlow ==
    [][\A u \in Users :
        (/\ cancel(u) \/ cancel_spotify(u) \/ unhandled(u, "cancel")
         /\ conv[u].link.state = "SPOTIFY_CODE")
        => /\ conv'[u].link = NoDialog
           /\ user_contexts' = user_contexts]_vars

\* A linked user has started the linking flow again and ended it with
\* /cancel.
C23_Witness ==
    \E u \in Users :
        /\ conv[u].link.state = "none"
        /\ conv[u].reply = "cancelled"
        /\ user_contexts[u].access_token # NoCipher

\* The ten moods of the session's mood field.
TenMoods ==
    {"happy", "sad", "anxious", "excited", "calm", "angry", "energetic",
     "relaxed", "focused", "nostalgic"}

\* C24 (as stated): every user's stored mood is unset or one of the ten
\* moods, whatever buttons were pressed and estimations ran.
C24_MoodUnsetOrOneOfTen ==
    \A u \in Users : session[u].mood \in {"none"} \cup TenMoods

\* C24 (amended): every user's stored mood is unset, "neutral" or one of
\* the ten moods; "neutral" is stored by its button only, never by a
\* background estimation.
C24_MoodUnsetNeutralOrOneOfTen ==
    [][\A u \in Users :
        /\ session'[u].mood \in {"none", "neutral"} \cup TenMoods
        /\ \A m \in MsgTasks : \A mood_raw \in RawMoods \cup {"error"} :
            (update_mood(m, mood_raw) /\ session'[u].mood # session[u].mood)
            => session'[u].mood \in TenMoods]_vars

\* A background estimation has stored a normalised mood.
C24_Witness ==
    \E u \in Users : session[u].mood = "anxious"

\* Reasons returned by the two except clauses of download_youtube_audio_sync.
TaxonomyReasons ==
    {"Unsupported URL.", "Video unavailable.", "Video not available.",
     "This is a private video.", "Cannot download waiting Premieres."}
GenericReasons == {"Download failed: ", "An unexpected error occurred: "}
PolicyReason == "File exceeds 50 MB Telegram limit after download"

\* C25: every extracted artifact larger than the 50 MiB ceiling
\* (52,428,800 bytes) is rejected: the file is deleted, the extraction
\* reports the policy violation, and the job goes on to report the failure,
\* never to deliver.
C25_OverCeilingRejected ==
    [][\A t \in DlTasks, x \in Extractions :
        (x.kind = "file" /\ x.size > CeilingBytes
            /\ download_youtube_audio_sync(t, x))
            => /\ unique_filename_base(dl[t].url, now) \notin files'
               /\ dl'[t].pc = "edit_failed"
               /\ dl'[t].error.reason = PolicyReason
               /\ dl'[t].audio_path = NoPath]_vars

\* C26: no two download jobs that are active at the same time use the same
\* local artifact path, and the artifact a job looks up is one it created.
C26_DistinctArtifactPaths ==
    [][/\ \A t1, t2 \in DlTasks :
            (t1 # t2 /\ dl'[t1].audio_path # NoPath
                /\ dl'[t2].audio_path # NoPath)
                => dl'[t1].audio_path # dl'[t2].audio_path
       /\ \A t \in DlTasks, x \in Extractions :
            (x.kind = "no_file" /\ download_youtube_audio_sync(t, x))
                => dl'[t].audio_path = NoPath]_vars

\* C27: the extraction of one request is retried with a bound of 2
\* attempts: an extraction that failed with an error has been attempted
\* twice, never a third time, and the delivery is attempted at most once.
C27_ExtractionRetriedOnce ==
    [][\A t \in DlTasks :
        /\ (dl[t].pc = "extract" /\ dl'[t].pc = "edit_failed"
              /\ dl'[t].error.reason \in TaxonomyReasons \cup GenericReasons)
                => dl'[t].attempts = StopAfterAttempt
        /\ dl'[t].attempts <= StopAfterAttempt
        /\ dl[t].pc = "send_audio" => dl'[t].pc # "send_audio"]_vars

\* C28: an extraction in which the library raises a download error or any
\* other exception returns a failure to the handler (no exception reaches
\* it): the reason is one of the fixed messages or a generic message that
\* carries at most 100 characters of the error text.
C28_ExtractionNeverRaises ==
    [][\A t \in DlTasks, x \in Extractions :
        (x.kind \in {"DownloadError", "Exception"}
            /\ download_youtube_audio_sync(t, x))
            => /\ dl'[t].pc = "edit_failed"
               /\ dl'[t].exc = dl[t].exc
               /\ files' = files
               /\ \/ dl'[t].error.reason \in TaxonomyReasons
                     /\ dl'[t].error.carried = 0
                  \/ dl'[t].error.reason \in GenericReasons
                     /\ dl'[t].error.carried <= 100
                     /\ dl'[t].error.carried <= x.len]_vars

\* A job reports a generic failure that carries 100 characters of the
\* error text.
C28_Witness ==
    \E t \in DlTasks :
        /\ dl[t].pc = "edit_failed"
        /\ dl[t].error.reason \in GenericReasons
        /\ dl[t].error.carried = 100

\* The step belongs to an operation carried out for user u: it moves a
\* handler or task of u, or the conversation of u.
ActsFor(u) ==
    \/ \E t \in DlTasks : dl'[t] # dl[t] /\ u \in {dl[t].user_id, dl'[t].user_id}
    \/ \E c \in TokTasks : tk'[c] # tk[c] /\ u \in {tk[c].user_id, tk'[c].user_id}
    \/ \E m \in MsgTasks :
        /\ msg'[m] # msg[m]
        /\ u \in {msg[m].user_id, msg'[m].user_id, msg[m].mood_user, msg'[m].mood_user}
    \/ conv'[u] # conv[u]

C30_MusicRequestOnlyWhenFlagged ==
    [][\A m \in MsgTasks : \A raw \in LlmOutcomes :
        is_music_request_returns(m, raw)
        => /\ msg'[m].route = "MusicRequest"
                => (raw.kind = "dict" /\ raw.flag /\ raw.query \notin {"none", ""})
           /\ (raw.kind # "dict" \/ raw.query \in {"none", ""})
                => IF lyrics_query_candidate(msg[m].text) # <<>>
                   THEN /\ msg'[m].pc = "done"
                        /\ msg'[m].route = "LyricsRequest"
                   ELSE /\ msg'[m].pc = "thinking"
                        /\ msg'[m].route = "none"]_vars

\* A text has been handled as a MusicRequest with the query of the
\* classification.
C30_Witness ==
    \E m \in MsgTasks :
        /\ msg[m].pc = "done" /\ msg[m].route = "MusicRequest"
        /\ msg[m].query = <<"hello">>

C32_MoodTaskWritesOnlyNewMood ==
    [][\A m \in MsgTasks : \A raw \in RawMoods \cup {"error"} :
        update_mood(m, raw)
        => LET u == msg[m].mood_user
               estimate == detect_mood_from_text(raw, session[u].mood)
           IN  /\ session'[u].mood # session[u].mood
                    => /\ raw # "error"
                       /\ session'[u].mood = estimate
                       /\ estimate # "neutral"
               /\ (raw = "error" \/ estimate = "neutral"
                     \/ estimate = session[u].mood)
                    => session'[u].mood = session[u].mood
               /\ msg'[m].mood_pc = "none"
               /\ \A v \in Users \ {u} : session'[v] = session[v]]_vars

\* A mood task has ended and its user's mood is one that only an estimate
\* can give.
C32_Witness ==
    \E u \in Users : \E m \in MsgTasks :
        /\ session[u].mood = "anxious"
        /\ msg[m].mood_pc = "none"

\* C33: when a refresh completes and the pair stored for its user is no
\* longer the one the refresh started from (the stored refresh token
\* decrypts to another token than the one it sent), the completion leaves
\* the stored pair as it is, whether the exchange succeeded or was refused.
C33_LateRefreshKeepsNewerPair ==
    [][\A c \in TokTasks : \A resp \in TokenResponses :
        LET sp == user_contexts[tk[c].user_id]
        IN  (refresh_spotify_token(c, resp)
                /\ sp.refresh_token.key = CipherKey
                /\ sp.refresh_token.pt # tk[c].refresh_token_str)
            => user_contexts'[tk[c].user_id] = sp]_vars

\* C34 (as stated): a mood button pressed while the mood flow of its user
\* is not in AwaitingMood, and a genre button pressed while it is not in
\* AwaitingPreference, leave the session of that user as it is.
C34_SelectionOnlyInMatchingState ==
    [][\A u \in Users :
        /\ \A mood \in MoodButtons :
            (mood_button(u, mood) /\ conv[u].mood.state # "MOOD")
                => session'[u] = session[u]
        /\ \A preference \in PrefButtons :
            (pref_button(u, preference) /\ conv[u].mood.state # "PREFERENCE")
                => session'[u] = session[u]]_vars

\* C34 (amended): a mood button writes the mood and a genre button the
\* preferences of the user who pressed it, and nothing else of the
\* session, in whatever state the mood flow of that user is; the flow
\* itself moves only from the matching state (AwaitingMood to
\* AwaitingPreference, AwaitingPreference to End).
C34_SelectionWritesInEveryState ==
    [][\A u \in Users :
        /\ \A mood \in MoodButtons :
            mood_button(u, mood)
            => /\ session'[u] = [session[u] EXCEPT !.mood = mood]
               /\ conv'[u].mood.state =
                    IF conv[u].mood.state = "MOOD" THEN "PREFERENCE"
                    ELSE conv[u].mood.state
        /\ \A preference \in PrefButtons :
            pref_button(u, preference)
            => /\ session'[u] = [session[u] EXCEPT !.preferences =
                        IF preference \in {"skip", "any"} THEN <<>>
                        ELSE <<preference>>]
               /\ conv'[u].mood.state =
                    IF conv[u].mood.state = "PREFERENCE" THEN "none"
                    ELSE conv[u].mood.state]_vars

\* A genre has been chosen from a menu while the mood flow of the user was
\* waiting for a mood, and the flow is still waiting for it.
C34_Witness ==
    \E u \in Users :
        /\ conv[u].mood.state = "MOOD"
        /\ conv[u].reply = "pref_done"
        /\ session[u].preferences = <<"rock">>

\* ---------------------------------------------------------------- commands

\* C35: every search with a non-empty query ends by sending the user the
\* list of results with its download buttons or a no-results message (the
\* text for results that could not be processed counted as one), whether it
\* was started by /search or by the show-options button; a search whose
\* first message failed in the transport is left aside.
C35_SearchAnswered ==
    \A k \in CmdTasks :
        (/\ cmd[k].kind \in {"search", "show_options"}
         /\ cmd[k].pc = "done"
         /\ cmd[k].query # EmptyStr
         /\ cmd[k].exc # "TelegramError")
        => cmd[k].sent \in {"results", "no_results", "unprocessed_results"}

\* C36: a chat exchange whose completion call returned a reply appends to
\* the user's history exactly the user's message and then the assistant's
\* reply to it; any other step appends nothing to any history and leaves
\* what stays of it in order.
C36_ExchangeAppendsPair ==
    [][\A u \in Users :
        LET h == session[u].conversation_history
            h2 == session'[u].conversation_history
        IN  IF \E m \in MsgTasks :
                   msg[m].user_id = u /\ generate_chat_response_returns(m, TRUE)
            THEN /\ Len(h2) = Len(h) + 2
                 /\ SubSeq(h2, 1, Len(h)) = h
                 /\ h2[Len(h) + 1][1] = "user"
                 /\ h2[Len(h) + 2][1] = "assistant"
                 /\ h2[Len(h) + 1][2] = h2[Len(h) + 2][2]
            ELSE /\ Len(h2) <= Len(h)
                 /\ h2 = SubSeq(h, Len(h) - Len(h2) + 1, Len(h))]_vars

\* Two exchanges of a user were appended, the second while the first was
\* stored.
C36_Witness ==
    \E u \in Users : \E m \in MsgTasks :
        /\ session[u].conversation_history =
               <<(<<"user", 1>>), (<<"assistant", 1>>), (<<"user", 2>>), (<<"assistant", 2>>)>>
        /\ msg[m].pc = "done" /\ msg[m].route = "GenericChat"

\* C37: a recommendation request carries at most five seeds, which are the
\* first tracks, then the first genres that fit beside them, then the first
\* artists that fit beside both; without a token or without any seed the
\* call returns the empty list and the endpoint is not called.
C37_SeedsCappedInPriorityOrder ==
    \A k \in CmdTasks :
        cmd[k].kind = "get_spotify_recommendations" =>
            LET seeds == cmd[k].seeds
                params == cmd[k].params
                Min(a, b) == IF a < b THEN a ELSE b
                tracks == Min(Len(seeds.seed_tracks), 5)
                genres == Min(Len(seeds.seed_genres), 5 - tracks)
                artists == Min(Len(seeds.seed_artists), 5 - tracks - genres)
            IN  IF seeds.token = "" \/ tracks + genres + artists = 0
                THEN cmd[k].pc = "done" /\ ~cmd[k].called /\ cmd[k].tracks = 0
                ELSE /\ cmd[k].called
                     /\ params.seed_tracks = SubSeq(seeds.seed_tracks, 1, tracks)
                     /\ params.seed_genres = SubSeq(seeds.seed_genres, 1, genres)
                     /\ params.seed_artists = SubSeq(seeds.seed_artists, 1, artists)
                     /\ Len(params.seed_tracks) + Len(params.seed_genres)
                            + Len(params.seed_artists) <= 5

\* A request of three tracks, one genre and four artists went out with
\* one artist.
C37_Witness ==
    \E k \in CmdTasks :
        /\ cmd[k].pc = "done" /\ cmd[k].called
        /\ Len(cmd[k].seeds.seed_tracks) = 3
        /\ Len(cmd[k].seeds.seed_genres) = 1
        /\ Len(cmd[k].seeds.seed_artists) = 4
        /\ Len(cmd[k].params.seed_artists) = 1

\* C38: every callback payload attached to a button is at most 64 bytes
\* long.
C38_PayloadsWithinLimit ==
    \A k \in CmdTasks : \A i \in 1..Len(cmd[k].keyboard) :
        CallbackBytes(cmd[k].keyboard[i]) <= CallbackDataLimit

\* C39: /clear leaves every user's mood and preferences, every stored
\* account link, and every other user's history as they were, and empties
\* the history of the user who sent it; when that history is already empty
\* the session state does not change at all.
C39_ClearTouchesOnlyHistory ==
    [][\A k \in CmdTasks : \A u \in Users :
        clear_history(k, u) =>
            /\ user_contexts' = user_contexts
            /\ conv' = conv
            /\ \A v \in Users :
                /\ session'[v].mood = session[v].mood
                /\ session'[v].preferences = session[v].preferences
                /\ session'[v].conversation_history =
                       IF v = u THEN <<>> ELSE session[v].conversation_history
            /\ (session[u].conversation_history = <<>> => session' = session)]_vars

\* A linked user with a mood, a genre and an emptied history after /clear
\* answered that the history was cleared.
C39_Witness ==
    \E k \in CmdTasks :
        LET u == cmd[k].user_id
        IN  /\ cmd[k].kind = "clear" /\ cmd[k].sent = "cleared"
            /\ session[u].conversation_history = <<>>
            /\ session[u].mood = "happy"
            /\ session[u].preferences = <<"rock">>
            /\ user_contexts[u].access_token # NoCipher

====
